---- MODULE Spec2Model ----
(***************************************************************************)
(* Model of the N2S efficiency engine (apps-backup/impact-model):          *)
(* model.py (class N2SEfficiencyModel, run_model_scenario) and the helpers *)
(* of config.py it calls.                                                  *)
(*                                                                         *)
(* Numbers.  The program computes in Python floats.  The model computes    *)
(* the same expressions, in the same order, over exact rationals <<n, d>>  *)
(* (d > 0, lowest terms), so a result of the model is the real number the  *)
(* float expression approximates; rounding in the last place is outside    *)
(* the model.                                                              *)
(***************************************************************************)
EXTENDS Integers, Sequences, FiniteSets, TLC

(***************************************************************************)
(* Rational arithmetic                                                     *)
(***************************************************************************)
Abs(n) == IF n < 0 THEN -n ELSE n

RECURSIVE GCD(_, _)
GCD(a, b) == IF b = 0 THEN a ELSE GCD(b, a % b)

\* n/d in lowest terms, d > 0
Rat(n, d) ==
    LET g == GCD(Abs(n), d)
    IN  IF n = 0 THEN <<0, 1>> ELSE <<n \div g, d \div g>>

Num(n) == <<n, 1>>

Zero == Num(0)

One == Num(1)

Add(x, y) ==
    LET g == GCD(x[2], y[2])
    IN  Rat(x[1] * (y[2] \div g) + y[1] * (x[2] \div g), (x[2] \div g) * y[2])

Neg(x) == <<-x[1], x[2]>>

Sub(x, y) == Add(x, Neg(y))

Mul(x, y) ==
    LET g1 == GCD(Abs(x[1]), y[2])
        g2 == GCD(Abs(y[1]), x[2])
    IN  IF x[1] = 0 \/ y[1] = 0 THEN <<0, 1>>
        ELSE <<(x[1] \div g1) * (y[1] \div g2), (x[2] \div g2) * (y[2] \div g1)>>

\* x / y, y # 0
Div(x, y) ==
    Mul(x, IF y[1] > 0 THEN <<y[2], y[1]>> ELSE <<-y[2], -y[1]>>)

Leq(x, y) == Sub(x, y)[1] <= 0

Less(x, y) == Sub(x, y)[1] < 0

RatAbs(x) == <<Abs(x[1]), x[2]>>

RatMax(x, y) == IF Leq(x, y) THEN y ELSE x

RatMin(x, y) == IF Leq(x, y) THEN x ELSE y

\* Python's None (and the empty dict, equally falsy): the function with no keys
None == <<>>

IsNone(x) == DOMAIN x = {}

\* Python's sum(): left to right over a sequence, starting from 0
RECURSIVE SumSeq(_)
SumSeq(s) ==
    IF s = <<>> THEN Zero
    ELSE Add(SumSeq(SubSeq(s, 1, Len(s) - 1)), s[Len(s)])

(***************************************************************************)
(* config.py: catalogs and defaults                                        *)
(***************************************************************************)
PHASE_ORDER ==
    <<"Discover", "Plan", "Design", "Build", "Test", "Deploy", "Post Go-Live">>

Phases == {PHASE_ORDER[i] : i \in 1..Len(PHASE_ORDER)}

INITIATIVE_FALLBACK ==
    <<"Modernization Studio", "AI/Automation", "N2S CARM", "Preconfigured Envs",
      "Automated Testing", "EDCC", "Integration Code Reuse">>

Initiatives == {INITIATIVE_FALLBACK[i] : i \in 1..Len(INITIATIVE_FALLBACK)}

DEFAULT_TOTAL_HOURS == 17054

DEFAULT_BLENDED_RATE == 100

DEFAULT_PHASE_ALLOCATION ==
    [p \in Phases |->
        CASE p = "Discover" -> 5
          [] p = "Plan" -> 10
          [] p = "Design" -> 15
          [] p = "Build" -> 25
          [] p = "Test" -> 20
          [] p = "Deploy" -> 10
          [] p = "Post Go-Live" -> 15]

DEFAULT_RISK_WEIGHTS ==
    [p \in Phases |->
        CASE p = "Discover" -> Num(1)
          [] p = "Plan" -> Num(2)
          [] p = "Design" -> Num(3)
          [] p = "Build" -> Num(4)
          [] p = "Test" -> Num(5)
          [] p = "Deploy" -> Num(6)
          [] p = "Post Go-Live" -> Num(7)]

INDUSTRY_BENCHMARKS ==
    [quality_improvement |-> Rat(20, 100),
     testing_phase_reduction |-> Rat(45, 100)]

\* name |-> (multiplier, ongoing_factor)
COST_AVOIDANCE_OPTIONS ==
    [none |-> [multiplier |-> Zero, ongoing_factor |-> Zero],
     minimal |-> [multiplier |-> Rat(5, 10), ongoing_factor |-> Rat(25, 100)],
     conservative |-> [multiplier |-> Rat(15, 10), ongoing_factor |-> Rat(5, 10)],
     moderate |-> [multiplier |-> Rat(25, 10), ongoing_factor |-> Rat(8, 10)],
     aggressive |-> [multiplier |-> Num(4), ongoing_factor |-> Rat(12, 10)],
     maximum |-> [multiplier |-> Num(6), ongoing_factor |-> Rat(15, 10)]]

\* total_hours * (pct / 100.0) for every phase of the allocation
\* line 702 with floor division: total_hours * (pct // 100)
BaselineHoursFloorDiv(total_hours, allocation) ==
    [p \in DOMAIN allocation |-> Num(total_hours * (allocation[p] \div 100))]

calculate_baseline_hours(total_hours, allocation) ==
    [p \in DOMAIN allocation |-> Mul(Num(total_hours), Rat(allocation[p], 100))]

(***************************************************************************)
(* model.py: the seed Impact Matrix                                        *)
(***************************************************************************)
\* lines 37-54 with one cell an overrun: Deploy of the first initiative +26
SampleDataWithOverrun ==
    [p \in Phases |->
        CASE p = "Discover" -> <<-13, -10, -19, -26, -6, -16, -22>>
          [] p = "Plan" -> <<-19, -16, -32, -38, -10, -26, -29>>
          [] p = "Design" -> <<-32, -26, -45, -51, -38, -35, -42>>
          [] p = "Build" -> <<-51, -77, -64, -96, -128, -58, -115>>
          [] p = "Test" -> <<-128, -115, -102, -77, -160, -64, -179>>
          [] p = "Deploy" -> <<26, -51, -19, -38, -32, -22, -29>>
          [] p = "Post Go-Live" -> <<-96, -64, -77, -115, -51, -58, -90>>]

sample_data ==
    [p \in Phases |->
        CASE p = "Discover" -> <<-13, -10, -19, -26, -6, -16, -22>>
          [] p = "Plan" -> <<-19, -16, -32, -38, -10, -26, -29>>
          [] p = "Design" -> <<-32, -26, -45, -51, -38, -35, -42>>
          [] p = "Build" -> <<-51, -77, -64, -96, -128, -58, -115>>
          [] p = "Test" -> <<-128, -115, -102, -77, -160, -64, -179>>
          [] p = "Deploy" -> <<-26, -51, -19, -38, -32, -22, -29>>
          [] p = "Post Go-Live" -> <<-96, -64, -77, -115, -51, -58, -90>>]

\* position of an initiative in the frame's index
IndexOf(initiative) ==
    CHOOSE i \in 1..Len(INITIATIVE_FALLBACK) : INITIATIVE_FALLBACK[i] = initiative

\* pd.DataFrame(sample_data, index=INITIATIVE_FALLBACK): frame[initiative][phase]
SampleMatrix ==
    [i \in Initiatives |-> [p \in Phases |-> Num(sample_data[p][IndexOf(i)])]]

\* effective_matrix[phase].sum(): the column, in index order
ColumnSum(frame, phase) ==
    SumSeq([k \in 1..Len(INITIATIVE_FALLBACK) |-> frame[INITIATIVE_FALLBACK[k]][phase]])

(***************************************************************************)
(* model.py: apply_maturity_and_scenario                                   *)
(***************************************************************************)
\* lines 86-91 with the entry test "if maturity_levels.get(initiative):",
\* which would leave a 0% initiative's row at its seed values
RowSkippingZero(row, initiative, maturity_levels) ==
    IF initiative \in DOMAIN maturity_levels /\ maturity_levels[initiative] # 0
    THEN [p \in DOMAIN row |-> Mul(row[p], Rat(maturity_levels[initiative], 100))]
    ELSE row

\* one row of the copy after the maturity loop: scaled by maturity/100.0 when
\* the initiative has an entry in maturity_levels, left alone otherwise
MaturityRow(row, initiative, maturity_levels) ==
    IF initiative \in DOMAIN maturity_levels
    THEN [p \in DOMAIN row |-> Mul(row[p], Rat(maturity_levels[initiative], 100))]
    ELSE row

MaturityScaled(matrix_data, maturity_levels) ==
    [i \in DOMAIN matrix_data |-> MaturityRow(matrix_data[i], i, maturity_levels)]

\* scenario_config.get('target_percentage', 15): a dict is a function whose
\* domain is its keys
TargetOf(scenario_config) ==
    IF "target_percentage" \in DOMAIN scenario_config
    THEN scenario_config.target_percentage
    ELSE 15

\* scenario_config.get('current_maturity', {}).get('maturity_level', 2)
LevelOf(scenario_config) ==
    IF "current_maturity" \in DOMAIN scenario_config
       /\ "maturity_level" \in DOMAIN scenario_config.current_maturity
    THEN scenario_config.current_maturity.maturity_level
    ELSE 2

\* lines 105-108: targets up to 10
FirstTier(base_intensity, maturity_factor) ==
    [additional_factor |-> Zero,
     testing_boost |-> Mul(Mul(base_intensity, Rat(2, 10)), maturity_factor),
     quality_boost |-> Mul(Mul(base_intensity, Rat(15, 100)), maturity_factor)]

\* lines 110-114 with the testing coefficient falling with progress
\* (0.3 - progress * 0.2)
SecondTierFalling(target_percentage, base_intensity, maturity_factor) ==
    LET progress == Rat(target_percentage - 10, 10)
    IN  [additional_factor |-> Mul(Mul(progress, Rat(8, 10)), maturity_factor),
         testing_boost |->
            Mul(Mul(base_intensity, Sub(Rat(3, 10), Mul(progress, Rat(2, 10)))),
                maturity_factor),
         quality_boost |->
            Mul(Mul(base_intensity, Add(Rat(2, 10), Mul(progress, Rat(15, 100)))),
                maturity_factor)]

\* lines 110-114: targets above 10 up to 20
SecondTier(target_percentage, base_intensity, maturity_factor) ==
    LET progress == Rat(target_percentage - 10, 10)
    IN  [additional_factor |-> Mul(Mul(progress, Rat(8, 10)), maturity_factor),
         testing_boost |->
            Mul(Mul(base_intensity, Add(Rat(3, 10), Mul(progress, Rat(2, 10)))),
                maturity_factor),
         quality_boost |->
            Mul(Mul(base_intensity, Add(Rat(2, 10), Mul(progress, Rat(15, 100)))),
                maturity_factor)]

\* lines 116-120: targets above 20
ThirdTier(target_percentage, base_intensity, maturity_factor) ==
    LET progress == RatMin(One, Rat(target_percentage - 20, 10))
    IN  [additional_factor |->
            Mul(Add(Rat(8, 10), Mul(progress, Rat(7, 10))), maturity_factor),
         testing_boost |->
            Mul(Mul(base_intensity, Add(Rat(5, 10), Mul(progress, Rat(3, 10)))),
                maturity_factor),
         quality_boost |->
            Mul(Mul(base_intensity, Add(Rat(35, 100), Mul(progress, Rat(25, 100)))),
                maturity_factor)]

\* lines 105 and 110 with the first tier ending at the 15% reference instead of 10
FactorsFirstTierTo15(target_percentage, current_level) ==
    LET base_intensity == Rat(target_percentage, 15)
        maturity_factor == Rat(current_level, 3)
    IN  IF target_percentage <= 15
        THEN FirstTier(base_intensity, maturity_factor)
        ELSE IF target_percentage <= 20
        THEN SecondTier(target_percentage, base_intensity, maturity_factor)
        ELSE ThirdTier(target_percentage, base_intensity, maturity_factor)

\* lines 98-120: the three tiers of "progressive scaling"
ScenarioFactors(target_percentage, current_level) ==
    LET base_intensity == Rat(target_percentage, 15)
        maturity_factor == Rat(current_level, 3)
    IN  IF target_percentage <= 10
        THEN FirstTier(base_intensity, maturity_factor)
        ELSE IF target_percentage <= 20
        THEN SecondTier(target_percentage, base_intensity, maturity_factor)
        ELSE ThirdTier(target_percentage, base_intensity, maturity_factor)

\* lines 123-138 with Deploy among the quality phases whatever the
\* additional factor
ColumnFactorDeployAlways(phase, f, industry_benchmarks) ==
    LET test_factor ==
            IF Less(Zero, f.testing_boost) /\ phase = "Test"
            THEN Add(One, Mul(industry_benchmarks.testing_phase_reduction,
                              f.testing_boost))
            ELSE One
        quality_factor ==
            IF Less(Zero, f.quality_boost)
               /\ phase \in {"Design", "Build", "Test", "Deploy"}
            THEN Add(One, Mul(industry_benchmarks.quality_improvement,
                              f.quality_boost))
            ELSE One
    IN  <<test_factor, quality_factor>>

\* lines 123-138 with Plan among the quality phases
ColumnFactorQualityInPlan(phase, f, industry_benchmarks) ==
    LET test_factor ==
            IF Less(Zero, f.testing_boost) /\ phase = "Test"
            THEN Add(One, Mul(industry_benchmarks.testing_phase_reduction,
                              f.testing_boost))
            ELSE One
        quality_phases ==
            {"Plan", "Design", "Build", "Test"} \cup
            (IF Less(Rat(5, 10), f.additional_factor) THEN {"Deploy"} ELSE {})
        quality_factor ==
            IF Less(Zero, f.quality_boost) /\ phase \in quality_phases
            THEN Add(One, Mul(industry_benchmarks.quality_improvement,
                              f.quality_boost))
            ELSE One
    IN  <<test_factor, quality_factor>>

\* the factor each column is multiplied by in lines 123-138
ScenarioColumnFactor(phase, f, industry_benchmarks) ==
    LET enabled == Less(Zero, f.additional_factor) \/ Less(Zero, f.testing_boost)
        test_factor ==
            IF enabled /\ Less(Zero, f.testing_boost) /\ phase = "Test"
            THEN Add(One, Mul(industry_benchmarks.testing_phase_reduction,
                              f.testing_boost))
            ELSE One
        quality_phases ==
            {"Design", "Build", "Test"} \cup
            (IF Less(Rat(5, 10), f.additional_factor) THEN {"Deploy"} ELSE {})
        quality_factor ==
            IF enabled /\ Less(Zero, f.quality_boost) /\ phase \in quality_phases
            THEN Add(One, Mul(industry_benchmarks.quality_improvement,
                              f.quality_boost))
            ELSE One
    IN  <<test_factor, quality_factor>>

ScenarioScaled(frame, f, industry_benchmarks) ==
    LET factor == [p \in Phases |-> ScenarioColumnFactor(p, f, industry_benchmarks)]
    IN  [i \in DOMAIN frame |->
            [p \in DOMAIN frame[i] |->
                Mul(Mul(frame[i][p], factor[p][1]), factor[p][2])]]

conservative_caps ==
    [p \in Phases |->
        CASE p = "Discover" -> Rat(35, 100)
          [] p = "Plan" -> Rat(40, 100)
          [] p = "Design" -> Rat(45, 100)
          [] p = "Build" -> Rat(50, 100)
          [] p = "Test" -> Rat(60, 100)
          [] p = "Deploy" -> Rat(45, 100)
          [] p = "Post Go-Live" -> Rat(65, 100)]

\* line 148: the hours the caps are taken of
CapBaselineHours == calculate_baseline_hours(17054, DEFAULT_PHASE_ALLOCATION)

\* line 141 with the level test "current_level <= 4"
CappingAppliesUpToLevel4(target_percentage, current_level) ==
    target_percentage > 20 /\ current_level <= 4

\* line 141
CappingApplies(target_percentage, current_level) ==
    target_percentage > 20 /\ current_level < 4

\* lines 152-156: the factor the column is rescaled by (1 when it is left alone)
CapScale(frame, phase) ==
    LET max_savings == Mul(CapBaselineHours[phase], conservative_caps[phase])
        total_savings == RatAbs(ColumnSum(frame, phase))
    IN  IF Less(max_savings, total_savings)
        THEN Div(max_savings, total_savings)
        ELSE One

Capped(frame, target_percentage, current_level) ==
    IF CappingApplies(target_percentage, current_level)
    THEN LET scale == [p \in Phases |-> CapScale(frame, p)]
         IN  [i \in DOMAIN frame |->
                [p \in DOMAIN frame[i] |-> Mul(frame[i][p], scale[p])]]
    ELSE frame

\* the frame returned by a call on a loaded engine
apply_maturity_and_scenario(matrix_data, maturity_levels, scenario_config, industry_benchmarks) ==
    LET benchmarks ==
            IF IsNone(industry_benchmarks) THEN INDUSTRY_BENCHMARKS
            ELSE industry_benchmarks
        target_percentage == TargetOf(scenario_config)
        current_level == LevelOf(scenario_config)
    IN  Capped(ScenarioScaled(MaturityScaled(matrix_data, maturity_levels),
                              ScenarioFactors(target_percentage, current_level),
                              benchmarks),
               target_percentage, current_level)

(***************************************************************************)
(* model.py: calculate_phase_hours                                         *)
(***************************************************************************)
Columns(frame) == DOMAIN frame[INITIATIVE_FALLBACK[1]]

\* line 174 without the floor
ModeledHourUnfloored(baseline, frame, phase) ==
    IF phase \in Columns(frame)
    THEN Add(baseline, ColumnSum(frame, phase))
    ELSE baseline

\* lines 172-176
ModeledHour(baseline, frame, phase) ==
    IF phase \in Columns(frame)
    THEN RatMax(Zero, Add(baseline, ColumnSum(frame, phase)))
    ELSE baseline

calculate_phase_hours(total_hours, phase_allocation, effective_deltas) ==
    LET baseline_hours == calculate_baseline_hours(total_hours, phase_allocation)
    IN  [baseline_hours |-> baseline_hours,
         modeled_hours |->
            [p \in Phases |-> ModeledHour(baseline_hours[p], effective_deltas, p)]]

(***************************************************************************)
(* model.py: calculate_costs_and_savings                                   *)
(***************************************************************************)
\* cost_avoidance_config.get(key, 1.0)
GetOr1(config, key) == IF key \in DOMAIN config THEN config[key] ELSE One

\* sum(savings[p] for p in PHASE_ORDER if p != 'Post Go-Live')
DevSavings(savings) ==
    SumSeq([k \in 1..(Len(PHASE_ORDER) - 1) |-> savings[PHASE_ORDER[k]]])

\* lines 201-214 with the avoidance credited to every phase
AvoidanceEveryPhase(phase, savings, include_cost_avoidance, cost_avoidance_config) ==
    IF include_cost_avoidance /\ ~IsNone(cost_avoidance_config)
    THEN Mul(RatMax(Zero, Mul(DevSavings(savings),
                              GetOr1(cost_avoidance_config, "ongoing_factor"))),
             GetOr1(cost_avoidance_config, "multiplier"))
    ELSE Zero

\* lines 201-214: avoidance[phase]
Avoidance(phase, savings, include_cost_avoidance, cost_avoidance_config) ==
    IF include_cost_avoidance /\ ~IsNone(cost_avoidance_config)
    THEN IF phase = "Post Go-Live"
         THEN Mul(RatMax(Zero, Mul(DevSavings(savings),
                                   GetOr1(cost_avoidance_config, "ongoing_factor"))),
                  GetOr1(cost_avoidance_config, "multiplier"))
         ELSE Zero
    ELSE Zero

calculate_costs_and_savings(baseline_hours, modeled_hours, blended_rate, include_cost_avoidance, cost_avoidance_config) ==
    LET baseline_cost == [p \in Phases |-> Mul(baseline_hours[p], Num(blended_rate))]
        modeled_cost == [p \in Phases |-> Mul(modeled_hours[p], Num(blended_rate))]
        savings == [p \in Phases |-> Sub(baseline_cost[p], modeled_cost[p])]
    IN  [baseline_cost |-> baseline_cost,
         modeled_cost |-> modeled_cost,
         savings |-> savings,
         avoidance |->
            [p \in Phases |->
                Avoidance(p, savings, include_cost_avoidance, cost_avoidance_config)]]

(***************************************************************************)
(* model.py: calculate_risk_adjusted_hours                                 *)
(***************************************************************************)
\* lines 231-234 with the weight looked up for every phase, a missing entry
\* counting as 0
RiskAdjustedMissingAsZero(modeled_hours, risk_weights) ==
    [p \in Phases |->
        IF p \in DOMAIN risk_weights
        THEN Mul(modeled_hours[p], risk_weights[p])
        ELSE Zero]

calculate_risk_adjusted_hours(modeled_hours, risk_weights) ==
    [p \in Phases |->
        IF p \in DOMAIN risk_weights
        THEN Mul(modeled_hours[p], risk_weights[p])
        ELSE modeled_hours[p]]

(***************************************************************************)
(* model.py: generate_summary_table, get_kpi_summary                       *)
(***************************************************************************)
\* (variance / base * 100) if base > 0 else 0
PctOf(variance, base) ==
    IF Less(Zero, base) THEN Mul(Div(variance, base), Num(100)) ELSE Zero

\* one row per phase, in PHASE_ORDER
generate_summary_table(baseline_hours, modeled_hours, baseline_cost, modeled_cost, risk_adjusted_hours) ==
    [k \in 1..Len(PHASE_ORDER) |->
        LET phase == PHASE_ORDER[k]
            hour_variance == Sub(modeled_hours[phase], baseline_hours[phase])
            cost_variance == Sub(modeled_cost[phase], baseline_cost[phase])
        IN  [Phase |-> phase,
             BaselineHours |-> baseline_hours[phase],
             ModeledHours |-> modeled_hours[phase],
             HourVariance |-> hour_variance,
             HourVariancePct |-> PctOf(hour_variance, baseline_hours[phase]),
             BaselineCost |-> baseline_cost[phase],
             ModeledCost |-> modeled_cost[phase],
             CostVariance |-> cost_variance,
             CostVariancePct |-> PctOf(cost_variance, baseline_cost[phase]),
             RiskAdjustedHours |-> risk_adjusted_hours[phase]]]

\* sum(d.values()) of a dict keyed by the phases
SumValues(d) == SumSeq([k \in 1..Len(PHASE_ORDER) |-> d[PHASE_ORDER[k]]])

\* line 287 with the avoidance left out of the benefit
BenefitSavingsOnly(total_cost_savings, total_cost_avoidance) == total_cost_savings

\* line 287
FinancialBenefit(total_cost_savings, total_cost_avoidance) ==
    Add(total_cost_savings, total_cost_avoidance)

get_kpi_summary(baseline_hours, modeled_hours, cost_results) ==
    LET total_baseline_hours == SumValues(baseline_hours)
        total_modeled_hours == SumValues(modeled_hours)
        total_hours_saved == Sub(total_baseline_hours, total_modeled_hours)
        total_cost_savings == SumValues(cost_results.savings)
        total_cost_avoidance == SumValues(cost_results.avoidance)
    IN  [total_baseline_hours |-> total_baseline_hours,
         total_modeled_hours |-> total_modeled_hours,
         total_hours_saved |-> total_hours_saved,
         total_hours_saved_pct |-> PctOf(total_hours_saved, total_baseline_hours),
         total_baseline_cost |-> SumValues(cost_results.baseline_cost),
         total_modeled_cost |-> SumValues(cost_results.modeled_cost),
         total_cost_savings |-> total_cost_savings,
         total_cost_avoidance |-> total_cost_avoidance,
         total_financial_benefit |->
            FinancialBenefit(total_cost_savings, total_cost_avoidance)]

(***************************************************************************)
(* model.py: generate_initiative_impact_table                              *)
(***************************************************************************)
dev_phases == <<"Discover", "Plan", "Design", "Build", "Test", "Deploy">>

\* frame.loc[initiative].sum()
RowSum(frame, initiative) ==
    SumSeq([k \in 1..Len(PHASE_ORDER) |-> frame[initiative][PHASE_ORDER[k]]])

\* maturity_levels.get(initiative, 0) > 0
HasMaturity(maturity_levels, initiative) ==
    initiative \in DOMAIN maturity_levels /\ maturity_levels[initiative] > 0

\* lines 315-343 with the avoidance taken off whether or not it is enabled
ImpactRowAvoidanceAlways(matrix_data, effective_deltas, maturity_levels, initiative, blended_rate, include_cost_avoidance, cost_avoidance_config) ==
    LET dev_hours ==
            SumSeq([k \in 1..Len(dev_phases) |-> effective_deltas[initiative][dev_phases[k]]])
        post_golive_hours == effective_deltas[initiative]["Post Go-Live"]
        dev_cost_impact == Mul(dev_hours, Num(blended_rate))
        post_golive_cost_impact == Mul(post_golive_hours, Num(blended_rate))
        avoidance_value ==
            IF ~IsNone(cost_avoidance_config) /\ Less(dev_cost_impact, Zero)
            THEN Mul(Mul(RatAbs(dev_cost_impact),
                         GetOr1(cost_avoidance_config, "ongoing_factor")),
                     GetOr1(cost_avoidance_config, "multiplier"))
            ELSE Zero
        post_after == Sub(post_golive_cost_impact, avoidance_value)
    IN  [Initiative |-> initiative,
         MaturityPct |-> maturity_levels[initiative],
         BaselineHourDelta |-> RowSum(matrix_data, initiative),
         EffectiveHourDelta |-> RowSum(effective_deltas, initiative),
         DevelopmentHours |-> dev_hours,
         PostGoLiveHours |-> post_golive_hours,
         DevelopmentCostImpact |-> dev_cost_impact,
         PostGoLiveCostImpact |-> post_after,
         TotalFinancialImpact |-> Add(dev_cost_impact, post_after)]

\* lines 315-343: the row appended for one initiative
ImpactRow(matrix_data, effective_deltas, maturity_levels, initiative, blended_rate, include_cost_avoidance, cost_avoidance_config) ==
    LET dev_hours ==
            SumSeq([k \in 1..Len(dev_phases) |-> effective_deltas[initiative][dev_phases[k]]])
        post_golive_hours == effective_deltas[initiative]["Post Go-Live"]
        dev_cost_impact == Mul(dev_hours, Num(blended_rate))
        post_golive_cost_impact == Mul(post_golive_hours, Num(blended_rate))
        avoidance_value ==
            IF include_cost_avoidance /\ ~IsNone(cost_avoidance_config)
               /\ Less(dev_cost_impact, Zero)
            THEN Mul(Mul(RatAbs(dev_cost_impact),
                         GetOr1(cost_avoidance_config, "ongoing_factor")),
                     GetOr1(cost_avoidance_config, "multiplier"))
            ELSE Zero
        post_after == Sub(post_golive_cost_impact, avoidance_value)
    IN  [Initiative |-> initiative,
         MaturityPct |-> maturity_levels[initiative],
         BaselineHourDelta |-> RowSum(matrix_data, initiative),
         EffectiveHourDelta |-> RowSum(effective_deltas, initiative),
         DevelopmentHours |-> dev_hours,
         PostGoLiveHours |-> post_golive_hours,
         DevelopmentCostImpact |-> dev_cost_impact,
         PostGoLiveCostImpact |-> post_after,
         TotalFinancialImpact |-> Add(dev_cost_impact, post_after)]

\* the initiatives of the index that get a row, in index order
RECURSIVE ImpactInitiatives(_, _)
ImpactInitiatives(maturity_levels, k) ==
    IF k = 0 THEN <<>>
    ELSE LET rest == ImpactInitiatives(maturity_levels, k - 1)
         IN  IF HasMaturity(maturity_levels, INITIATIVE_FALLBACK[k])
             THEN Append(rest, INITIATIVE_FALLBACK[k])
             ELSE rest

\* row r put into the ascending sequence rows, behind the rows that are not
\* greater than it
RECURSIVE InsertRow(_, _)
InsertRow(rows, r) ==
    IF rows = <<>> THEN <<r>>
    ELSE IF Leq(rows[Len(rows)].TotalFinancialImpact, r.TotalFinancialImpact)
         THEN Append(rows, r)
         ELSE Append(InsertRow(SubSeq(rows, 1, Len(rows) - 1), r), rows[Len(rows)])

\* line 346 left out: the rows in the order they were appended
RowsAsAppended(rows) == rows

\* df.sort_values('Total Financial Impact', ascending=True): for the at most
\* seven rows of this frame the sort is an insertion sort, which keeps equal
\* rows in their order
RECURSIVE SortValues(_)
SortValues(rows) ==
    IF rows = <<>> THEN <<>>
    ELSE InsertRow(SortValues(SubSeq(rows, 1, Len(rows) - 1)), rows[Len(rows)])

\* the call's outcome: the sorted rows, or the exception it ends with
\* (self.matrix_data is None in line 336; no column to sort by in line 346)
generate_initiative_impact_table(matrix_data, effective_deltas, maturity_levels, blended_rate, include_cost_avoidance, cost_avoidance_config) ==
    LET chosen == ImpactInitiatives(maturity_levels, Len(INITIATIVE_FALLBACK))
    IN  IF chosen # <<>> /\ IsNone(matrix_data)
        THEN [status |-> "AttributeError", rows |-> <<>>]
        ELSE IF chosen = <<>>
        THEN [status |-> "KeyError", rows |-> <<>>]
        ELSE [status |-> "ok",
              rows |-> SortValues(
                  [k \in 1..Len(chosen) |->
                      ImpactRow(matrix_data, effective_deltas, maturity_levels,
                                chosen[k], blended_rate, include_cost_avoidance,
                                cost_avoidance_config)])]

(***************************************************************************)
(* config.py: maturity assessment and target feasibility                   *)
(***************************************************************************)
\* level |-> name, savings_potential_range, typical_savings
MATURITY_LEVELS ==
    [level \in 1..5 |->
        CASE level = 1 -> [name |-> "Ad-hoc/Manual", savings_potential_range |-> <<Num(5), Num(8)>>, typical_savings |-> Rat(65, 10)]
          [] level = 2 -> [name |-> "Repeatable", savings_potential_range |-> <<Num(8), Num(12)>>, typical_savings |-> Num(10)]
          [] level = 3 -> [name |-> "Defined", savings_potential_range |-> <<Num(12), Num(18)>>, typical_savings |-> Num(15)]
          [] level = 4 -> [name |-> "Managed", savings_potential_range |-> <<Num(18), Num(25)>>, typical_savings |-> Rat(215, 10)]
          [] level = 5 -> [name |-> "Optimizing", savings_potential_range |-> <<Num(25), Num(30)>>, typical_savings |-> Rat(275, 10)]]

\* the questions in their order of declaration
QuestionOrder ==
    <<"test_automation_coverage", "ci_cd_maturity", "code_reuse_level",
      "environment_automation", "documentation_automation">>

\* question |-> type, weight, options
AUTOMATION_ASSESSMENT ==
    [q \in {QuestionOrder[k] : k \in 1..Len(QuestionOrder)} |->
        CASE q = "test_automation_coverage" ->
                [type |-> "slider", weight |-> Rat(3, 10), options |-> <<>>]
          [] q = "ci_cd_maturity" ->
                [type |-> "selectbox", weight |-> Rat(25, 100),
                 options |-> <<"Manual deployments", "Basic build automation",
                               "Automated testing in pipeline",
                               "Full deployment automation", "Self-healing pipelines">>]
          [] q = "code_reuse_level" ->
                [type |-> "slider", weight |-> Rat(2, 10), options |-> <<>>]
          [] q = "environment_automation" ->
                [type |-> "selectbox", weight |-> Rat(15, 100),
                 options |-> <<"Manual environment setup", "Some scripted setup",
                               "Standardized environments", "Infrastructure as Code",
                               "Fully automated and optimized">>]
          [] q = "documentation_automation" ->
                [type |-> "selectbox", weight |-> Rat(1, 10),
                 options |-> <<"Manual documentation", "Template-based documentation",
                               "Some automated generation",
                               "Mostly automated documentation",
                               "AI-assisted and self-updating">>]]

\* options.index(response), or -1 when response is not in options
OptionIndex(options, response) ==
    IF \E k \in 1..Len(options) : options[k] = response
    THEN (CHOOSE k \in 1..Len(options) : options[k] = response) - 1
    ELSE -1

\* lines 346-357 with an undeclared option taking the top score
QuestionScoreUndeclaredTop(question_key, response) ==
    LET question_config == AUTOMATION_ASSESSMENT[question_key]
        response_index == OptionIndex(question_config.options, response)
        max_options == Len(question_config.options) - 1
    IN  IF question_config.type = "slider" THEN Rat(response, 100)
        ELSE IF response_index >= 0
             THEN (IF max_options > 0 THEN Rat(response_index, max_options) ELSE Zero)
             ELSE One

\* lines 346-357: the score of one declared question
QuestionScore(question_key, response) ==
    LET question_config == AUTOMATION_ASSESSMENT[question_key]
        response_index == OptionIndex(question_config.options, response)
        max_options == Len(question_config.options) - 1
    IN  IF question_config.type = "slider" THEN Rat(response, 100)
        ELSE IF response_index >= 0
             THEN (IF max_options > 0 THEN Rat(response_index, max_options) ELSE Zero)
             ELSE Zero

\* the declared questions that were answered, in the order of the responses
\* (the sidebar fills the responses in the order of declaration)
Answered(assessment_responses) ==
    SelectSeq(QuestionOrder, LAMBDA q : q \in DOMAIN assessment_responses)

\* lines 398-413
identify_improvement_areas(responses) ==
    SelectSeq(Answered(responses),
              LAMBDA q :
                  IF AUTOMATION_ASSESSMENT[q].type = "slider"
                  THEN responses[q] < 50
                  ELSE LET k == OptionIndex(AUTOMATION_ASSESSMENT[q].options, responses[q])
                       IN  k >= 0 /\ k < 2)

\* int(): truncation of a value that is never negative here
IntOf(x) == x[1] \div x[2]

\* line 363 without the + 1
MaturityLevelNoOffset(normalized_score) ==
    LET raw_level == IntOf(Mul(normalized_score, Num(4)))
    IN  IF raw_level < 1 THEN 1 ELSE IF raw_level > 5 THEN 5 ELSE raw_level

\* line 363: min(5, max(1, int(normalized_score * 4) + 1))
MaturityLevelOf(normalized_score) ==
    LET raw_level == IntOf(Mul(normalized_score, Num(4))) + 1
    IN  IF raw_level < 1 THEN 1 ELSE IF raw_level > 5 THEN 5 ELSE raw_level

\* line 385 without the clamp
RealisticMaxUnclamped(min_savings, max_savings, adjusted_savings) ==
    adjusted_savings

\* line 385: min(max_savings, max(min_savings, adjusted_savings))
RealisticMax(min_savings, max_savings, adjusted_savings) ==
    RatMin(max_savings, RatMax(min_savings, adjusted_savings))

\* lines 328-396
assess_current_maturity(assessment_responses) ==
    LET answered == Answered(assessment_responses)
        total_score ==
            SumSeq([k \in 1..Len(answered) |->
                Mul(QuestionScore(answered[k], assessment_responses[answered[k]]),
                    AUTOMATION_ASSESSMENT[answered[k]].weight)])
        max_score ==
            SumSeq([k \in 1..Len(answered) |-> AUTOMATION_ASSESSMENT[answered[k]].weight])
        normalized_score ==
            IF Less(Zero, max_score) THEN Div(total_score, max_score) ELSE Zero
        maturity_level == MaturityLevelOf(normalized_score)
        level_info == MATURITY_LEVELS[maturity_level]
        min_savings == level_info.savings_potential_range[1]
        max_savings == level_info.savings_potential_range[2]
        coverage ==
            IF "test_automation_coverage" \in DOMAIN assessment_responses
            THEN assessment_responses["test_automation_coverage"] ELSE 30
        test_auto_boost == Mul(Num(coverage - 30), Rat(1, 10))
        cicd_response ==
            IF "ci_cd_maturity" \in DOMAIN assessment_responses
            THEN assessment_responses["ci_cd_maturity"] ELSE "Basic build automation"
        found == OptionIndex(AUTOMATION_ASSESSMENT["ci_cd_maturity"].options, cicd_response)
        cicd_index == IF found >= 0 THEN found ELSE 1
        cicd_boost == Mul(Num(cicd_index - 1), Rat(5, 10))
        adjusted_savings == Add(Add(level_info.typical_savings, test_auto_boost), cicd_boost)
    IN  [maturity_level |-> maturity_level,
         maturity_name |-> level_info.name,
         current_savings_potential |->
            RealisticMax(min_savings, max_savings, adjusted_savings),
         savings_range |-> <<min_savings, max_savings>>,
         assessment_score |-> normalized_score,
         improvement_areas |-> identify_improvement_areas(assessment_responses)]

\* x occurs in the list
InList(x, list) == \E k \in 1..Len(list) : list[k] = x

\* lines 459-485 with the infrastructure and monitoring advice from level 5 on
RecommendationsInfraFrom5(current_maturity, target_level) ==
    LET improvement_areas == current_maturity.improvement_areas
    IN  IF target_level <= current_maturity.maturity_level
        THEN <<"Your current maturity level is sufficient for this target">>
        ELSE (IF InList("test_automation_coverage", improvement_areas)
              THEN <<"Increase automated test coverage to 60%+ (current focus area)">>
              ELSE <<>>)
             \o (IF InList("ci_cd_maturity", improvement_areas)
                 THEN <<"Implement full CI/CD pipeline with automated deployments">>
                 ELSE <<>>)
             \o (IF InList("code_reuse_level", improvement_areas)
                 THEN <<"Develop reusable component library (target 40%+ reuse)">>
                 ELSE <<>>)
             \o (IF target_level >= 5
                 THEN <<"Implement Infrastructure as Code for environment management",
                        "Add comprehensive monitoring and measurement systems",
                        "Focus on continuous optimization and AI-assisted processes">>
                 ELSE <<>>)

\* lines 459-485
generate_recommendations(current_maturity, target_level) ==
    LET improvement_areas == current_maturity.improvement_areas
    IN  IF target_level <= current_maturity.maturity_level
        THEN <<"Your current maturity level is sufficient for this target">>
        ELSE (IF InList("test_automation_coverage", improvement_areas)
              THEN <<"Increase automated test coverage to 60%+ (current focus area)">>
              ELSE <<>>)
             \o (IF InList("ci_cd_maturity", improvement_areas)
                 THEN <<"Implement full CI/CD pipeline with automated deployments">>
                 ELSE <<>>)
             \o (IF InList("code_reuse_level", improvement_areas)
                 THEN <<"Develop reusable component library (target 40%+ reuse)">>
                 ELSE <<>>)
             \o (IF target_level >= 4
                 THEN <<"Implement Infrastructure as Code for environment management",
                        "Add comprehensive monitoring and measurement systems">>
                 ELSE <<>>)
             \o (IF target_level >= 5
                 THEN <<"Focus on continuous optimization and AI-assisted processes">>
                 ELSE <<>>)

\* line 436 with a strict comparison
FeasibleStrict(target_savings, total_potential) ==
    Less(Num(target_savings), total_potential)

\* line 436
Feasible(target_savings, total_potential) ==
    Leq(Num(target_savings), total_potential)

\* lines 440-445 with the lower end of the range (savings_potential_range[0])
RequiredLevelByLowerEnd(target_savings, initiative_boost) ==
    LET meets(level) ==
            Leq(Num(target_savings),
                Add(MATURITY_LEVELS[level].savings_potential_range[1], initiative_boost))
    IN  IF \E level \in 1..5 : meets(level)
        THEN CHOOSE level \in 1..5 :
                meets(level) /\ \A lower \in 1..(level - 1) : ~meets(lower)
        ELSE 5

\* lines 440-445: the first level whose upper bound plus the boost meets the
\* target, 5 when there is none
RequiredLevel(target_savings, initiative_boost) ==
    LET meets(level) ==
            Leq(Num(target_savings),
                Add(MATURITY_LEVELS[level].savings_potential_range[2], initiative_boost))
    IN  IF \E level \in 1..5 : meets(level)
        THEN CHOOSE level \in 1..5 :
                meets(level) /\ \A lower \in 1..(level - 1) : ~meets(lower)
        ELSE 5

\* lines 415-457
calculate_target_feasibility(current_maturity, target_savings, selected_initiatives) ==
    LET current_potential == current_maturity.current_savings_potential
        initiative_boost == Mul(Num(Len(selected_initiatives)), Rat(15, 10))
        total_potential == Add(current_potential, initiative_boost)
        feasible == Feasible(target_savings, total_potential)
        required_level ==
            IF ~feasible THEN RequiredLevel(target_savings, initiative_boost)
            ELSE current_maturity.maturity_level
    IN  [feasible |-> feasible,
         current_potential |-> current_potential,
         total_potential_with_initiatives |-> total_potential,
         gap |-> RatMax(Zero, Sub(Num(target_savings), total_potential)),
         required_maturity_level |-> required_level,
         required_maturity_name |-> MATURITY_LEVELS[required_level].name,
         recommendations |-> generate_recommendations(current_maturity, required_level)]

(***************************************************************************)
(* Bounds and the inputs the callers draw from                             *)
(***************************************************************************)
NumCallers == 2

Callers == 1..NumCallers

\* the engine the sessions share, and a second, freshly constructed one
Engines == {1, 2}

AllAt(pct) == [i \in Initiatives |-> pct]

\* one initiative at 0%, four above it, two with no entry
MixedMaturity ==
    [i \in Initiatives \ {"Preconfigured Envs", "Integration Code Reuse"} |->
        CASE i = "Modernization Studio" -> 0
          [] i = "AI/Automation" -> 100
          [] i = "N2S CARM" -> 100
          [] i = "Automated Testing" -> 50
          [] i = "EDCC" -> 100]

MaturityChoices == {AllAt(50), AllAt(0), AllAt(100), MixedMaturity}

\* an allocation that sums to 100 and is not the default
TestHeavyAllocation ==
    [p \in Phases |->
        CASE p = "Discover" -> 10
          [] p = "Plan" -> 10
          [] p = "Design" -> 10
          [] p = "Build" -> 20
          [] p = "Test" -> 30
          [] p = "Deploy" -> 10
          [] p = "Post Go-Live" -> 10]

\* a project small enough for the deltas to exceed a phase's baseline hours
SmallProjectHours == 1000

\* (total_hours, phase_allocation) pairs
ProjectChoices ==
    {<<SmallProjectHours, DEFAULT_PHASE_ALLOCATION>>,
     <<DEFAULT_TOTAL_HOURS, DEFAULT_PHASE_ALLOCATION>>,
     <<DEFAULT_TOTAL_HOURS, TestHeavyAllocation>>}

TargetChoices == {5, 10, 15, 20, 25, 30}

\* the sidebar's slider: 5..30 in steps of 1
TargetSavingsChoices == 5..30

LevelChoices == 1..5

\* the sidebar's upper ends: testing reduction 0.8, quality improvement 0.5
HighBenchmarks ==
    [quality_improvement |-> Rat(50, 100), testing_phase_reduction |-> Rat(80, 100)]

BenchmarkChoices == {None, HighBenchmarks}

AvoidanceChoices ==
    {None, COST_AVOIDANCE_OPTIONS.none, COST_AVOIDANCE_OPTIONS.moderate,
     COST_AVOIDANCE_OPTIONS.maximum}

\* weights for some phases only
PartialRiskWeights ==
    [p \in {"Build", "Test"} |-> IF p = "Build" THEN Rat(5, 10) ELSE Num(10)]

\* (include_cost_avoidance, cost_avoidance_config, risk_weights) triples
CostChoices ==
    {<<TRUE, av, DEFAULT_RISK_WEIGHTS>> : av \in AvoidanceChoices} \cup
    {<<FALSE, COST_AVOIDANCE_OPTIONS.moderate, PartialRiskWeights>>}

\* a frame a caller builds itself and hands to calculate_phase_hours
CallerDeltas == [i \in Initiatives |-> [p \in Phases |-> Zero]]

(***************************************************************************)
(* State                                                                   *)
(***************************************************************************)
VARIABLES
    matrix_data,          \* per engine: the seed frame, None before loading
    initiatives,          \* per engine: self.initiatives
    loaded,               \* per engine: self.loaded
    pc,                   \* per caller: the call it makes next
    req,                  \* per caller: the arguments of its calls
    scaling,              \* per caller: the factors apply_maturity_and_scenario computed
    effective_deltas,     \* per caller: what apply_maturity_and_scenario returned
    phase_hours,          \* per caller: (baseline_hours, modeled_hours)
    cost_results,         \* per caller
    risk_adjusted_hours,  \* per caller
    summary_df,           \* per caller
    kpi_summary,          \* per caller
    initiative_impact_df, \* per caller
    error,                \* per caller: the exception that ended its run, or ""
    assessment,           \* the sidebar's responses and what assess_current_maturity made of them
    feasibility,          \* the arguments and the result of calculate_target_feasibility
    sidebar_error         \* per caller: the message the sidebar shows under the phase sliders, or ""

engine_vars == <<matrix_data, initiatives, loaded>>

local_vars ==
    <<scaling, effective_deltas, phase_hours, cost_results, risk_adjusted_hours,
      summary_df, kpi_summary, initiative_impact_df, error>>

advice_vars == <<assessment, feasibility, sidebar_error>>

vars == <<engine_vars, pc, req, local_vars, advice_vars>>

\* N2SEfficiencyModel.__init__ for every engine; no caller has asked anything
Init ==
    /\ matrix_data = [e \in Engines |-> None]
    /\ initiatives = [e \in Engines |-> <<>>]
    /\ loaded = [e \in Engines |-> FALSE]
    /\ pc = [c \in Callers |-> "idle"]
    /\ req = [c \in Callers |-> None]
    /\ scaling = [c \in Callers |-> None]
    /\ effective_deltas = [c \in Callers |-> None]
    /\ phase_hours = [c \in Callers |-> None]
    /\ cost_results = [c \in Callers |-> None]
    /\ risk_adjusted_hours = [c \in Callers |-> None]
    /\ summary_df = [c \in Callers |-> None]
    /\ kpi_summary = [c \in Callers |-> None]
    /\ initiative_impact_df = [c \in Callers |-> None]
    /\ error = [c \in Callers |-> ""]
    /\ assessment = None
    /\ feasibility = None
    /\ sidebar_error = [c \in Callers |-> ""]

(***************************************************************************)
(* The engine's operations                                                 *)
(***************************************************************************)
\* create_sample_data / _create_sample_matrix on engine e
CreateSampleData(e) ==
    /\ matrix_data' = [matrix_data EXCEPT ![e] = SampleMatrix]
    /\ initiatives' = [initiatives EXCEPT ![e] = INITIATIVE_FALLBACK]
    /\ loaded' = [loaded EXCEPT ![e] = TRUE]
    /\ UNCHANGED <<pc, req, local_vars, advice_vars>>

\* a caller starts a run with arguments r: through apply_maturity_and_scenario
\* (main, run_model_scenario), or with a frame of its own straight into
\* calculate_phase_hours
NewRequest(c, r) ==
    /\ pc[c] = "idle"
    /\ req' = [req EXCEPT ![c] = r]
    /\ pc' = [pc EXCEPT ![c] = IF r.own_deltas THEN "phase_hours" ELSE "apply"]
    /\ effective_deltas' =
        [effective_deltas EXCEPT ![c] = IF r.own_deltas THEN CallerDeltas ELSE None]
    /\ scaling' = [scaling EXCEPT ![c] = None]
    /\ UNCHANGED <<engine_vars, phase_hours, cost_results, risk_adjusted_hours,
                   summary_df, kpi_summary, initiative_impact_df, error, advice_vars>>

\* line 85 without the copy: effective_matrix is self.matrix_data itself, and
\* the scaling writes into the seed
SeedAliased(seed, effective_matrix) == effective_matrix

\* line 85: effective_matrix is a copy, so the engine's frame after the call
\* is the frame before it
SeedAfterApply(seed, effective_matrix) == seed

\* lines 77-78: the call raises ValueError
RaisesNotLoaded(is_loaded) == ~is_loaded

ApplyMaturityAndScenario(c) ==
    LET e == req[c].engine
        result ==
            apply_maturity_and_scenario(matrix_data[e], req[c].maturity_levels,
                                        req[c].scenario_config,
                                        req[c].industry_benchmarks)
    IN  /\ pc[c] = "apply"
        /\ IF RaisesNotLoaded(loaded[e]) THEN
               /\ error' = [error EXCEPT ![c] = "ValueError"]
               /\ pc' = [pc EXCEPT ![c] = "failed"]
               /\ UNCHANGED <<scaling, effective_deltas, matrix_data>>
           ELSE IF IsNone(matrix_data[e]) THEN
               \* None has no copy()
               /\ error' = [error EXCEPT ![c] = "AttributeError"]
               /\ pc' = [pc EXCEPT ![c] = "failed"]
               /\ UNCHANGED <<scaling, effective_deltas, matrix_data>>
           ELSE
               /\ scaling' =
                    [scaling EXCEPT
                        ![c] = ScenarioFactors(TargetOf(req[c].scenario_config),
                                               LevelOf(req[c].scenario_config))]
               /\ effective_deltas' = [effective_deltas EXCEPT ![c] = result]
               /\ matrix_data' =
                    [matrix_data EXCEPT ![e] = SeedAfterApply(@, result)]
               /\ pc' = [pc EXCEPT ![c] = "phase_hours"]
               /\ UNCHANGED error
        /\ UNCHANGED <<initiatives, loaded, req, phase_hours, cost_results,
                       risk_adjusted_hours, summary_df, kpi_summary,
                       initiative_impact_df, advice_vars>>

CalculatePhaseHours(c) ==
    /\ pc[c] = "phase_hours"
    /\ phase_hours' =
        [phase_hours EXCEPT ![c] =
            calculate_phase_hours(req[c].total_hours, req[c].phase_allocation,
                                  effective_deltas[c])]
    /\ pc' = [pc EXCEPT ![c] = "costs"]
    /\ UNCHANGED <<engine_vars, req, scaling, effective_deltas, cost_results,
                   risk_adjusted_hours, summary_df, kpi_summary,
                   initiative_impact_df, error, advice_vars>>

CalculateCostsAndSavings(c) ==
    /\ pc[c] = "costs"
    /\ cost_results' =
        [cost_results EXCEPT ![c] =
            calculate_costs_and_savings(phase_hours[c].baseline_hours,
                                        phase_hours[c].modeled_hours,
                                        req[c].blended_rate,
                                        req[c].include_cost_avoidance,
                                        req[c].cost_avoidance_config)]
    /\ pc' = [pc EXCEPT ![c] = "risk"]
    /\ UNCHANGED <<engine_vars, req, scaling, effective_deltas, phase_hours,
                   risk_adjusted_hours, summary_df, kpi_summary,
                   initiative_impact_df, error, advice_vars>>

CalculateRiskAdjustedHours(c) ==
    /\ pc[c] = "risk"
    /\ risk_adjusted_hours' =
        [risk_adjusted_hours EXCEPT ![c] =
            calculate_risk_adjusted_hours(phase_hours[c].modeled_hours,
                                          req[c].risk_weights)]
    /\ pc' = [pc EXCEPT ![c] = "summary"]
    /\ UNCHANGED <<engine_vars, req, scaling, effective_deltas, phase_hours, cost_results,
                   summary_df, kpi_summary, initiative_impact_df, error, advice_vars>>

GenerateSummaryTable(c) ==
    /\ pc[c] = "summary"
    /\ summary_df' =
        [summary_df EXCEPT ![c] =
            generate_summary_table(phase_hours[c].baseline_hours,
                                   phase_hours[c].modeled_hours,
                                   cost_results[c].baseline_cost,
                                   cost_results[c].modeled_cost,
                                   risk_adjusted_hours[c])]
    /\ pc' = [pc EXCEPT ![c] = "kpi"]
    /\ UNCHANGED <<engine_vars, req, scaling, effective_deltas, phase_hours, cost_results,
                   risk_adjusted_hours, kpi_summary, initiative_impact_df, error, advice_vars>>

GetKpiSummary(c) ==
    /\ pc[c] = "kpi"
    /\ kpi_summary' =
        [kpi_summary EXCEPT ![c] =
            get_kpi_summary(phase_hours[c].baseline_hours,
                            phase_hours[c].modeled_hours, cost_results[c])]
    /\ pc' = [pc EXCEPT ![c] = "impact"]
    /\ UNCHANGED <<engine_vars, req, scaling, effective_deltas, phase_hours, cost_results,
                   risk_adjusted_hours, summary_df, initiative_impact_df, error, advice_vars>>

GenerateInitiativeImpactTable(c) ==
    LET result ==
            generate_initiative_impact_table(
                matrix_data[req[c].engine], effective_deltas[c],
                req[c].maturity_levels, req[c].blended_rate,
                req[c].include_cost_avoidance, req[c].cost_avoidance_config)
    IN  /\ pc[c] = "impact"
        /\ IF result.status = "ok" THEN
               /\ initiative_impact_df' =
                    [initiative_impact_df EXCEPT ![c] = result.rows]
               /\ pc' = [pc EXCEPT ![c] = "done"]
               /\ UNCHANGED error
           ELSE
               /\ error' = [error EXCEPT ![c] = result.status]
               /\ pc' = [pc EXCEPT ![c] = "failed"]
               /\ UNCHANGED initiative_impact_df
        /\ UNCHANGED <<engine_vars, req, scaling, effective_deltas, phase_hours,
                       cost_results, risk_adjusted_hours, summary_df, kpi_summary, advice_vars>>

\* the run is over (returned, or ended by an exception): its values are dropped
Return(c) ==
    /\ pc[c] \in {"done", "failed"}
    /\ pc' = [pc EXCEPT ![c] = "idle"]
    /\ req' = [req EXCEPT ![c] = None]
    /\ scaling' = [scaling EXCEPT ![c] = None]
    /\ effective_deltas' = [effective_deltas EXCEPT ![c] = None]
    /\ phase_hours' = [phase_hours EXCEPT ![c] = None]
    /\ cost_results' = [cost_results EXCEPT ![c] = None]
    /\ risk_adjusted_hours' = [risk_adjusted_hours EXCEPT ![c] = None]
    /\ summary_df' = [summary_df EXCEPT ![c] = None]
    /\ kpi_summary' = [kpi_summary EXCEPT ![c] = None]
    /\ initiative_impact_df' = [initiative_impact_df EXCEPT ![c] = None]
    /\ error' = [error EXCEPT ![c] = ""]
    /\ UNCHANGED <<engine_vars, advice_vars>>

\* the calls of one run, in the order main and run_model_scenario make them
Calculation(c) ==
    \/ ApplyMaturityAndScenario(c)
    \/ CalculatePhaseHours(c)
    \/ CalculateCostsAndSavings(c)
    \/ CalculateRiskAdjustedHours(c)
    \/ GenerateSummaryTable(c)
    \/ GetKpiSummary(c)
    \/ GenerateInitiativeImpactTable(c)

(***************************************************************************)
(* Specifications                                                          *)
(***************************************************************************)
\* the arguments one request is made of
Request(e, own, th, al, ml, t, l, b, rate, inc, av, rw) ==
    [engine |-> e, own_deltas |-> own, total_hours |-> th, phase_allocation |-> al,
     maturity_levels |-> ml,
     scenario_config |->
        [target_percentage |-> t, current_maturity |-> [maturity_level |-> l]],
     industry_benchmarks |-> b, blended_rate |-> rate,
     include_cost_avoidance |-> inc, cost_avoidance_config |-> av,
     risk_weights |-> rw]

\* runs through apply_maturity_and_scenario on engine e
PipelineRequests(e) ==
    {Request(e, FALSE, pr[1], pr[2], ml, t, l, b, DEFAULT_BLENDED_RATE, cc[1], cc[2], cc[3]) :
        pr \in ProjectChoices, ml \in MaturityChoices, t \in TargetChoices,
        l \in LevelChoices, b \in BenchmarkChoices, cc \in CostChoices}

\* runs of a caller that hands its own frame to calculate_phase_hours
OwnDeltasRequests(e) ==
    {Request(e, TRUE, pr[1], pr[2], ml, 15, 3, None, DEFAULT_BLENDED_RATE, TRUE,
             COST_AVOIDANCE_OPTIONS.moderate, DEFAULT_RISK_WEIGHTS) :
        pr \in ProjectChoices, ml \in {AllAt(50), AllAt(0)}}

\* one caller on one engine
Requests == PipelineRequests(1) \cup OwnDeltasRequests(1)

Next ==
    \/ \E e \in {1} : CreateSampleData(e)
    \/ \E r \in Requests : NewRequest(1, r)
    \/ Calculation(1)
    \/ Return(1)

Spec == Init /\ [][Next]_vars

(***************************************************************************)
(* Every target and level of the sidebar                                   *)
(***************************************************************************)
\* scenario configs with keys left out, as run_model_scenario's callers may
\* build them
PartialScenarioConfigs ==
    {<<>>,
     [target_percentage |-> 25],
     [target_percentage |-> 8, current_maturity |-> <<>>],
     [current_maturity |-> [maturity_level |-> 4]],
     [current_maturity |-> [maturity_name |-> "Managed"]]}

\* every target of the slider (5..30) at every level, on a project whose
\* initiatives are all at 0%, and the partial configs
ScenarioRequests ==
    {Request(1, FALSE, DEFAULT_TOTAL_HOURS, DEFAULT_PHASE_ALLOCATION, AllAt(0), t, l, None,
             DEFAULT_BLENDED_RATE, TRUE, COST_AVOIDANCE_OPTIONS.moderate,
             DEFAULT_RISK_WEIGHTS) : t \in TargetSavingsChoices, l \in LevelChoices}
    \cup
    {[Request(1, FALSE, DEFAULT_TOTAL_HOURS, DEFAULT_PHASE_ALLOCATION, AllAt(0), 15, 2,
              None, DEFAULT_BLENDED_RATE, TRUE, COST_AVOIDANCE_OPTIONS.moderate,
              DEFAULT_RISK_WEIGHTS) EXCEPT !.scenario_config = cfg] :
        cfg \in PartialScenarioConfigs}

NextScenario ==
    \/ \E e \in {1} : CreateSampleData(e)
    \/ \E r \in ScenarioRequests : NewRequest(1, r)
    \/ Calculation(1)
    \/ Return(1)

SpecScenario == Init /\ [][NextScenario]_vars

(***************************************************************************)
(* Projects of every size and shape                                        *)
(***************************************************************************)
Allocation(discover, plan, design, build, test, deploy, post) ==
    [p \in Phases |->
        CASE p = "Discover" -> discover
          [] p = "Plan" -> plan
          [] p = "Design" -> design
          [] p = "Build" -> build
          [] p = "Test" -> test
          [] p = "Deploy" -> deploy
          [] p = "Post Go-Live" -> post]

\* allocations summing to 100: the default, three more the sliders (1..50 per
\* phase) can give, and everything in one phase
ValidAllocations ==
    {DEFAULT_PHASE_ALLOCATION, TestHeavyAllocation,
     Allocation(1, 1, 1, 50, 45, 1, 1),
     Allocation(14, 14, 14, 14, 14, 15, 15),
     Allocation(0, 0, 0, 100, 0, 0, 0)}

\* slider settings that do not sum to 100
InvalidAllocations ==
    {Allocation(15, 15, 15, 15, 15, 15, 15), Allocation(5, 10, 15, 25, 20, 10, 5)}

\* the sum of the percentages
AllocationTotal(allocation) == SumValues([p \in Phases |-> Num(allocation[p])])

\* no hours, one hour, the input's least, default and greatest values
HoursChoices == {0, 1, 1000, DEFAULT_TOTAL_HOURS, 100000}

\* the default weights, weights for some phases, none, and one with a key
\* that is no phase
RiskWeightChoices ==
    {DEFAULT_RISK_WEIGHTS, PartialRiskWeights, <<>>,
     [p \in {"Deploy", "Training"} |-> Rat(25, 10)]}

ProjectRequests ==
    {Request(1, own, th, al, AllAt(50), 15, 3, None, DEFAULT_BLENDED_RATE, TRUE,
             COST_AVOIDANCE_OPTIONS.moderate, rw) :
        own \in BOOLEAN, th \in HoursChoices,
        al \in ValidAllocations \cup InvalidAllocations, rw \in RiskWeightChoices}

NextProject ==
    \/ \E e \in {1} : CreateSampleData(e)
    \/ \E r \in ProjectRequests : NewRequest(1, r)
    \/ Calculation(1)
    \/ Return(1)

SpecProject == Init /\ [][NextProject]_vars

(***************************************************************************)
(* app.py: a rerun of the dashboard script                                 *)
(***************************************************************************)
\* lines 222-229: the sidebar's message when the sliders do not total 100
AllocationMessage(phase_allocation) ==
    IF Less(Rat(1, 10), RatAbs(Sub(AllocationTotal(phase_allocation), Num(100))))
    THEN "Phase allocation must sum to 100%"
    ELSE ""

\* lines 61-407: the widgets' values go into the dict of line 396, whatever
\* the message of lines 222-229 was; no path returns None
create_sidebar_controls(widgets) == widgets

\* what the sliders and inputs of the sidebar are set to
WidgetChoices ==
    {Request(1, FALSE, th, al, ml, 15, 3, None, DEFAULT_BLENDED_RATE, TRUE,
             COST_AVOIDANCE_OPTIONS.moderate, DEFAULT_RISK_WEIGHTS) :
        th \in {1000, DEFAULT_TOTAL_HOURS},
        al \in (ValidAllocations \ {Allocation(0, 0, 0, 100, 0, 0, 0)})
                    \cup InvalidAllocations,
        ml \in {AllAt(50), AllAt(0)}}

\* main, lines 921-985: the cached engine is there, the sidebar is drawn, and
\* unless it returned None the calculations start
Main(c, widgets) ==
    LET controls == create_sidebar_controls(widgets)
    IN  /\ pc[c] = "idle"
        /\ loaded[widgets.engine]
        /\ sidebar_error' =
            [sidebar_error EXCEPT ![c] = AllocationMessage(widgets.phase_allocation)]
        /\ IF IsNone(controls)
           THEN UNCHANGED <<pc, req, scaling, effective_deltas>>
           ELSE /\ req' = [req EXCEPT ![c] = controls]
                /\ pc' = [pc EXCEPT ![c] = "apply"]
                /\ effective_deltas' = [effective_deltas EXCEPT ![c] = None]
                /\ scaling' = [scaling EXCEPT ![c] = None]
        /\ UNCHANGED <<engine_vars, phase_hours, cost_results, risk_adjusted_hours,
                       summary_df, kpi_summary, initiative_impact_df, error,
                       assessment, feasibility>>

NextDashboard ==
    \/ \E e \in {1} : CreateSampleData(e)
    \/ \E widgets \in WidgetChoices : Main(1, widgets)
    \/ Calculation(1)
    \/ Return(1)

SpecDashboard == Init /\ [][NextDashboard]_vars

(***************************************************************************)
(* Several sessions on shared engines                                      *)
(***************************************************************************)
\* sidebar settings that keep the scaling factors short: testing reduction
\* 0.75, quality improvement 0.5
RoundBenchmarks ==
    [quality_improvement |-> Rat(50, 100), testing_phase_reduction |-> Rat(75, 100)]

\* what the sessions ask of engine e: a full-size project with every initiative
\* half adopted on any engine, and a small one with mixed maturities on engine 1
ConcRequests(e) ==
    {Request(e, FALSE, DEFAULT_TOTAL_HOURS, DEFAULT_PHASE_ALLOCATION, AllAt(50), 10, 3,
             RoundBenchmarks, DEFAULT_BLENDED_RATE, TRUE, COST_AVOIDANCE_OPTIONS.moderate,
             DEFAULT_RISK_WEIGHTS)} \cup
    (IF e = 1
     THEN {Request(e, FALSE, SmallProjectHours, DEFAULT_PHASE_ALLOCATION, MixedMaturity,
                   10, 3, RoundBenchmarks, DEFAULT_BLENDED_RATE, TRUE,
                   COST_AVOIDANCE_OPTIONS.moderate, DEFAULT_RISK_WEIGHTS)}
     ELSE {})

\* every caller's calls interleave freely with the calls of the others, all on
\* engine 1
NextConc ==
    \/ \E e \in {1} : CreateSampleData(e)
    \/ \E c \in Callers : \E r \in ConcRequests(1) : NewRequest(c, r)
    \/ \E c \in Callers : Calculation(c)
    \/ \E c \in Callers : Return(c)

SpecConc == Init /\ [][NextConc]_vars

\* the same, with the second engine in use as well
NextTwice ==
    \/ \E e \in Engines : CreateSampleData(e)
    \/ \E c \in Callers, e \in Engines : \E r \in ConcRequests(e) : NewRequest(c, r)
    \/ \E c \in Callers : Calculation(c)
    \/ \E c \in Callers : Return(c)

SpecTwice == Init /\ [][NextTwice]_vars

(***************************************************************************)
(* The sidebar's assessment and feasibility check                          *)
(***************************************************************************)
\* the five questions answered: two sliders, three selections by option index
Answers(coverage, cicd, reuse, env, doc) ==
    [q \in {QuestionOrder[k] : k \in 1..Len(QuestionOrder)} |->
        CASE q = "test_automation_coverage" -> coverage
          [] q = "ci_cd_maturity" -> AUTOMATION_ASSESSMENT[q].options[cicd + 1]
          [] q = "code_reuse_level" -> reuse
          [] q = "environment_automation" -> AUTOMATION_ASSESSMENT[q].options[env + 1]
          [] q = "documentation_automation" -> AUTOMATION_ASSESSMENT[q].options[doc + 1]]

\* responses with a question left out, an option that is not declared, or a key
\* that is no question
OddResponses ==
    {<<>>,
     [q \in {"test_automation_coverage"} |-> 100],
     [q \in {"ci_cd_maturity", "no_such_question"} |-> "Self-healing pipelines"],
     [Answers(60, 2, 20, 2, 2) EXCEPT !["ci_cd_maturity"] = "Nightly builds"],
     [q \in {"test_automation_coverage", "code_reuse_level"} |-> 100],
     [q \in {"no_such_question"} |-> "Full deployment automation"],
     [Answers(100, 4, 80, 4, 4) EXCEPT !["code_reuse_level"] = 100],
     [Answers(0, 0, 20, 1, 1) EXCEPT !["environment_automation"] = "Serverless"],
     [q \in DOMAIN AUTOMATION_ASSESSMENT \cup {"no_such_question"} |->
        CASE q = "no_such_question" -> "yes"
          [] q = "ci_cd_maturity" -> "Nightly builds"
          [] OTHER -> Answers(60, 2, 20, 2, 2)[q]]}

ResponseChoices ==
    {Answers(coverage, cicd, rest[1], rest[2], rest[3]) :
        coverage \in {0, 30, 60, 100}, cicd \in {0, 1, 4}, rest \in {<<20, 1, 1>>, <<80, 4, 2>>, <<50, 2, 4>>}} \cup OddResponses

\* the initiatives ticked in the sidebar: the first n of the list
SelectionChoices ==
    {SubSeq(INITIATIVE_FALLBACK, 1, n) : n \in 0..Len(INITIATIVE_FALLBACK)}

\* create_sidebar_controls assesses first and judges the target next, once per
\* rerun of the script
AssessCurrentMaturity(responses) ==
    /\ assessment = None
    /\ assessment' =
        [responses |-> responses, result |-> assess_current_maturity(responses)]
    /\ feasibility' = None
    /\ UNCHANGED <<engine_vars, pc, req, local_vars, sidebar_error>>

CalculateTargetFeasibility(target_savings, selected_initiatives) ==
    /\ assessment # None
    /\ feasibility = None
    /\ feasibility' =
        [target_savings |-> target_savings,
         selected_initiatives |-> selected_initiatives,
         result |-> calculate_target_feasibility(assessment.result, target_savings,
                                                 selected_initiatives)]
    /\ UNCHANGED <<engine_vars, pc, req, local_vars, assessment, sidebar_error>>

\* create_sidebar_controls returns: its locals are dropped until the next rerun
SidebarReturn ==
    /\ feasibility # None
    /\ assessment' = None
    /\ feasibility' = None
    /\ UNCHANGED <<engine_vars, pc, req, local_vars, sidebar_error>>

NextAdvice ==
    \/ \E responses \in ResponseChoices : AssessCurrentMaturity(responses)
    \/ \E t \in TargetSavingsChoices, sel \in SelectionChoices :
            CalculateTargetFeasibility(t, sel)
    \/ SidebarReturn

SpecAdvice == Init /\ [][NextAdvice]_vars

(***************************************************************************)
(* Properties                                                              *)
(***************************************************************************)
Computed(x) == ~IsNone(x)

\* the caller's frame came out of apply_maturity_and_scenario
Applied(c) == Computed(effective_deltas[c]) /\ ~req[c].own_deltas

\* the request's baseline hours of a phase: total_hours * allocation_pct / 100
RequestBaseline(c, p) ==
    Mul(Num(req[c].total_hours), Rat(req[c].phase_allocation[p], 100))

\* C1: whenever calculate_phase_hours has returned, every phase's modeled hours
\* are max(0, baseline hours + the sum of the phase's effective-delta column),
\* hence never negative, also when the column sum is below -baseline.
C1_ModeledHoursFloored ==
    \A c \in Callers :
        Computed(phase_hours[c]) =>
            \A p \in Phases :
                LET projected ==
                        Add(RequestBaseline(c, p), ColumnSum(effective_deltas[c], p))
                    modeled == phase_hours[c].modeled_hours[p]
                IN  /\ modeled = IF Less(projected, Zero) THEN Zero ELSE projected
                    /\ modeled[1] >= 0

\* a phase whose column sum is more negative than its baseline hours has been projected
C1_Witness ==
    \E c \in Callers, p \in Phases :
        /\ Computed(phase_hours[c])
        /\ Less(Add(RequestBaseline(c, p), ColumnSum(effective_deltas[c], p)), Zero)
        /\ phase_hours[c].modeled_hours[p] = Zero

\* C2: in the frame apply_maturity_and_scenario returns, every cell of the row
\* of an initiative whose maturity is 0% is zero, whatever the target, level
\* and benchmarks (boosts and capping included).
C2_ZeroMaturityRowIsZero ==
    \A c \in Callers :
        Applied(c) =>
            \A i \in DOMAIN req[c].maturity_levels :
                req[c].maturity_levels[i] = 0 =>
                    \A p \in Phases : effective_deltas[c][i][p] = Zero

\* a frame with a 0% row whose Test column was boosted and then rescaled by the cap
C2_Witness ==
    \E c \in Callers :
        /\ Applied(c)
        /\ \E i \in DOMAIN req[c].maturity_levels : req[c].maturity_levels[i] = 0
        /\ CappingApplies(TargetOf(req[c].scenario_config), LevelOf(req[c].scenario_config))
        /\ RatAbs(ColumnSum(effective_deltas[c], "Test")) =
                Mul(CapBaselineHours["Test"], conservative_caps["Test"])

\* C3: in the result of calculate_costs_and_savings the avoidance of every
\* phase but Post Go-Live is 0, and that of Post Go-Live is
\* max(0, dev_savings * ongoing_factor) * multiplier of the profile, with
\* dev_savings the savings summed over the six other phases; with avoidance
\* disabled or no profile it is 0 for every phase.
C3_AvoidanceOnlyPostGoLive ==
    \A c \in Callers :
        Computed(cost_results[c]) =>
            LET savings == cost_results[c].savings
                avoidance == cost_results[c].avoidance
                profile == req[c].cost_avoidance_config
                dev_savings ==
                    SumSeq([k \in 1..6 |-> savings[PHASE_ORDER[k]]])
                scaled == Mul(dev_savings, profile.ongoing_factor)
            IN  /\ \A p \in Phases \ {"Post Go-Live"} : avoidance[p] = Zero
                /\ avoidance["Post Go-Live"] =
                        IF req[c].include_cost_avoidance /\ profile # None
                        THEN Mul(IF scaled[1] > 0 THEN scaled ELSE Zero,
                                 profile.multiplier)
                        ELSE Zero

\* a cost result with savings in the development phases and a positive avoidance
C3_Witness ==
    \E c \in Callers :
        /\ Computed(cost_results[c])
        /\ cost_results[c].avoidance["Post Go-Live"][1] > 0
        /\ cost_results[c].savings["Test"][1] > 0

\* C4, as claimed: at target 30 and level 2 no phase's summed effective delta
\* exceeds, in absolute value, the phase's cap fraction times the baseline
\* hours of the request.
C4_CapOfRequestBaseline ==
    \A c \in Callers :
        (/\ Applied(c)
         /\ TargetOf(req[c].scenario_config) = 30
         /\ LevelOf(req[c].scenario_config) = 2) =>
            \A p \in Phases :
                Leq(RatAbs(ColumnSum(effective_deltas[c], p)),
                    Mul(conservative_caps[p], RequestBaseline(c, p)))

\* C6: total_financial_benefit of the KPI summary is the sum of the cost
\* result's savings over the phases plus the sum of its avoidance over the
\* phases, which are the summary's total_cost_savings and total_cost_avoidance.
C6_KpiIdentity ==
    \A c \in Callers :
        Computed(kpi_summary[c]) =>
            LET savings == SumSeq([k \in 1..7 |-> cost_results[c].savings[PHASE_ORDER[k]]])
                avoidance == SumSeq([k \in 1..7 |-> cost_results[c].avoidance[PHASE_ORDER[k]]])
            IN  /\ kpi_summary[c].total_cost_savings = savings
                /\ kpi_summary[c].total_cost_avoidance = avoidance
                /\ kpi_summary[c].total_financial_benefit = Add(savings, avoidance)

\* a KPI summary of a run with savings and a positive avoidance
C6_Witness ==
    \E c \in Callers :
        /\ Computed(kpi_summary[c])
        /\ kpi_summary[c].total_cost_avoidance[1] > 0
        /\ kpi_summary[c].total_cost_savings[1] > 0

\* C7: no step taken on a loaded engine changes its seed frame, its initiative
\* list or its loaded flag.
C7_SeedUnchanged ==
    [][\A e \in Engines :
          loaded[e] =>
              /\ matrix_data'[e] = matrix_data[e]
              /\ initiatives'[e] = initiatives[e]
              /\ loaded'[e]]_vars

\* a whole run has been made on a loaded engine, and the frame it was given
\* differs from the seed
C7_Witness ==
    \E c \in Callers :
        /\ pc[c] = "done"
        /\ Applied(c)
        /\ loaded[req[c].engine]
        /\ effective_deltas[c] # SampleMatrix
        /\ matrix_data[req[c].engine] = SampleMatrix

\* C5: calculate_target_feasibility says feasible exactly when the target is at
\* most the current savings potential plus 1.5 per selected initiative; the gap
\* is max(0, target - that total), so it is never negative and is 0 when feasible.
C5_FeasibleIffWithinPotential ==
    feasibility # None =>
        LET total ==
                Add(assessment.result.current_savings_potential,
                    Rat(15 * Len(feasibility.selected_initiatives), 10))
            short == Sub(Num(feasibility.target_savings), total)
            result == feasibility.result
        IN  /\ result.feasible <=> (short[1] <= 0)
            /\ result.gap = IF short[1] > 0 THEN short ELSE Zero
            /\ result.gap[1] >= 0
            /\ result.feasible => result.gap = Zero

\* a target exactly at the total potential was judged (and found feasible)
C5_Witness ==
    /\ feasibility # None
    /\ Num(feasibility.target_savings) =
            Add(assessment.result.current_savings_potential,
                Rat(15 * Len(feasibility.selected_initiatives), 10))
    /\ Len(feasibility.selected_initiatives) > 0
    /\ feasibility.result.feasible

\* the frame a run with arguments r gets from a freshly loaded engine
AloneDeltas(r) ==
    apply_maturity_and_scenario(SampleMatrix, r.maturity_levels, r.scenario_config,
                                r.industry_benchmarks)

\* C8: with several callers interleaving their pipeline steps on shared loaded
\* engines, every output a caller holds is the output the same request gives
\* when run alone (each step fed with the results of the steps before it on a
\* freshly loaded engine); nothing another request wrote is read.
C8_ConcurrentAsAlone ==
    \A c \in Callers :
        (req[c] # None /\ ~req[c].own_deltas) =>
            \A deltas \in {AloneDeltas(req[c])} :
            \A hours \in {calculate_phase_hours(req[c].total_hours,
                                                req[c].phase_allocation, deltas)} :
            \A costs \in {calculate_costs_and_savings(
                              hours.baseline_hours, hours.modeled_hours,
                              req[c].blended_rate, req[c].include_cost_avoidance,
                              req[c].cost_avoidance_config)} :
            \A risk \in {calculate_risk_adjusted_hours(hours.modeled_hours,
                                                       req[c].risk_weights)} :
            \A impact \in {generate_initiative_impact_table(
                               SampleMatrix, deltas, req[c].maturity_levels,
                               req[c].blended_rate, req[c].include_cost_avoidance,
                               req[c].cost_avoidance_config)} :
                /\ Computed(effective_deltas[c]) => effective_deltas[c] = deltas
                /\ Computed(phase_hours[c]) => phase_hours[c] = hours
                /\ Computed(cost_results[c]) => cost_results[c] = costs
                /\ Computed(risk_adjusted_hours[c]) => risk_adjusted_hours[c] = risk
                /\ Computed(summary_df[c]) =>
                        summary_df[c] =
                            generate_summary_table(hours.baseline_hours,
                                                   hours.modeled_hours,
                                                   costs.baseline_cost,
                                                   costs.modeled_cost, risk)
                /\ Computed(kpi_summary[c]) =>
                        kpi_summary[c] =
                            get_kpi_summary(hours.baseline_hours, hours.modeled_hours,
                                            costs)
                /\ pc[c] = "done" =>
                        impact.status = "ok" /\ initiative_impact_df[c] = impact.rows

\* one caller has finished on an engine while another, with different
\* arguments, is in the middle of its run on the same engine
C8_Witness ==
    \E c1, c2 \in Callers :
        /\ c1 # c2
        /\ pc[c1] = "done"
        /\ pc[c2] \in {"costs", "risk", "summary", "kpi", "impact", "done"}
        /\ req[c1].engine = req[c2].engine
        /\ req[c1] # req[c2]

\* two runs were given the same arguments (the engine aside)
SameInputs(r1, r2) ==
    [r1 EXCEPT !.engine = 0] = [r2 EXCEPT !.engine = 0]

\* everything a finished run hands back
Outputs(c) ==
    <<effective_deltas[c], phase_hours[c], cost_results[c], risk_adjusted_hours[c],
      summary_df[c], kpi_summary[c], initiative_impact_df[c]>>

\* C9: two runs of the pipeline with identical inputs, on the same engine or on
\* different ones and whatever was run before them, hold identical outputs: every
\* result both have obtained so far is the same, and so is all of it once both
\* have finished.
C9_Deterministic ==
    \A c1, c2 \in Callers :
        (req[c1] # None /\ req[c2] # None /\ SameInputs(req[c1], req[c2])) =>
            /\ \A k \in 1..Len(Outputs(c1)) :
                    (Computed(Outputs(c1)[k]) /\ Computed(Outputs(c2)[k])) =>
                        Outputs(c1)[k] = Outputs(c2)[k]
            /\ (pc[c1] = "done" /\ pc[c2] = "done") => Outputs(c1) = Outputs(c2)

\* two runs with identical inputs have finished on one engine
C9_Witness ==
    \E c1, c2 \in Callers :
        /\ c1 # c2
        /\ pc[c1] = "done" /\ pc[c2] = "done"
        /\ SameInputs(req[c1], req[c2])
        /\ req[c1].engine = req[c2].engine
        /\ \A p \in Phases : Less(Zero, phase_hours[c1].modeled_hours[p])

\* c has made at least one call of its run
Invoked(c) ==
    pc[c] \notin {"idle", IF req[c].own_deltas THEN "phase_hours" ELSE "apply"}

\* C10: a calculation method invoked on an engine whose seed matrix has not
\* been loaded raises the uninitialized-engine error (ValueError, "Matrix data
\* not loaded") and returns no result: a caller that has made a call on such an
\* engine has failed with that error and holds no output of any method.
C10_EveryMethodRaisesUnloaded ==
    \A c \in Callers :
        (req[c] # None /\ ~loaded[req[c].engine] /\ Invoked(c)) =>
            /\ pc[c] = "failed"
            /\ error[c] = "ValueError"
            /\ ~Computed(phase_hours[c])
            /\ ~Computed(cost_results[c])
            /\ ~Computed(risk_adjusted_hours[c])
            /\ ~Computed(summary_df[c])
            /\ ~Computed(kpi_summary[c])
            /\ ~Computed(initiative_impact_df[c])

\* the request of the regression example: 17054 hours, the default allocation,
\* every initiative at 50%, target 15, level 3, default benchmarks
GoldenRequest(c) ==
    /\ req[c] # None
    /\ ~req[c].own_deltas
    /\ req[c].total_hours = DEFAULT_TOTAL_HOURS
    /\ req[c].phase_allocation = DEFAULT_PHASE_ALLOCATION
    /\ req[c].maturity_levels = AllAt(50)
    /\ TargetOf(req[c].scenario_config) = 15
    /\ LevelOf(req[c].scenario_config) = 3
    /\ IsNone(req[c].industry_benchmarks)

\* C11, as claimed: for the regression example the Test baseline is 3410.8
\* hours and the Test column of the effective deltas sums to -412.5, half the
\* seed's Test column, with no scenario boost in it.
C11_GoldenTestSumUnboosted ==
    \A c \in Callers :
        (GoldenRequest(c) /\ Computed(phase_hours[c])) =>
            /\ phase_hours[c].baseline_hours["Test"] = Rat(34108, 10)
            /\ ColumnSum(effective_deltas[c], "Test") = Rat(-4125, 10)

\* C11, amended: for the regression example the Test baseline is 3410.8 hours,
\* the boosts at target 15 and level 3 are 0.4 (testing) and 0.275 (quality),
\* and the Test column sums to the halved seed sum times both boost factors:
\* -412.5 * (1 + 0.45 * 0.4) * (1 + 0.20 * 0.275) = -513.52125.
C11_GoldenTestSumBoosted ==
    \A c \in Callers :
        (GoldenRequest(c) /\ Computed(phase_hours[c])) =>
            /\ phase_hours[c].baseline_hours["Test"] = Rat(34108, 10)
            /\ ColumnSum(SampleMatrix, "Test") = Num(-825)
            /\ scaling[c].testing_boost = Rat(4, 10)
            /\ scaling[c].quality_boost = Rat(275, 1000)
            /\ ColumnSum(effective_deltas[c], "Test") = Rat(-51352125, 100000)

\* the regression example has been run through calculate_phase_hours
C11_Witness ==
    \E c \in Callers : GoldenRequest(c) /\ Computed(phase_hours[c])

\* C12: at a fixed maturity level, the testing_boost computed for a target T2
\* in 10..20 is not smaller than the one for any target T1 with 10 <= T1 <= T2,
\* the step from the first tier (T = 10) into the second included.
C12_TestingBoostMonotone ==
    \A c \in Callers :
        (Computed(scaling[c]) /\ TargetOf(req[c].scenario_config) \in 10..20) =>
            \A T1 \in 10..TargetOf(req[c].scenario_config) :
                Leq(ScenarioFactors(T1, LevelOf(req[c].scenario_config)).testing_boost,
                    scaling[c].testing_boost)

\* the boost was computed just above the tier boundary and is strictly above
\* the boost at the boundary
C12_Witness ==
    \E c \in Callers :
        /\ Computed(scaling[c])
        /\ TargetOf(req[c].scenario_config) = 11
        /\ LevelOf(req[c].scenario_config) = 5
        /\ Less(ScenarioFactors(10, 5).testing_boost, scaling[c].testing_boost)

\* the factors as the tier table states them, for target T and level L
TierTable(T, L) ==
    LET bi == Rat(T, 15)
        mf == Rat(L, 3)
        times(x, coefficient) == Mul(Mul(x, coefficient), mf)
    IN  IF T <= 10 THEN
            <<Zero, times(bi, Rat(20, 100)), times(bi, Rat(15, 100))>>
        ELSE IF T <= 20 THEN
            LET p == Rat(T - 10, 10)
            IN  <<times(p, Rat(8, 10)),
                  times(bi, Add(Rat(30, 100), Mul(Rat(20, 100), p))),
                  times(bi, Add(Rat(20, 100), Mul(Rat(15, 100), p)))>>
        ELSE
            LET p == IF T - 20 >= 10 THEN One ELSE Rat(T - 20, 10)
            IN  <<Mul(Add(Rat(8, 10), Mul(Rat(7, 10), p)), mf),
                  times(bi, Add(Rat(50, 100), Mul(Rat(30, 100), p))),
                  times(bi, Add(Rat(35, 100), Mul(Rat(25, 100), p)))>>

C13_BaselineSumsToTotal ==
    \A c \in Callers :
        (/\ Computed(phase_hours[c])
         /\ DOMAIN req[c].phase_allocation = Phases
         /\ AllocationTotal(req[c].phase_allocation) = Num(100)
         /\ req[c].total_hours >= 0) =>
            /\ \A p \in Phases :
                    phase_hours[c].baseline_hours[p] =
                        Rat(req[c].total_hours * req[c].phase_allocation[p], 100)
            /\ SumValues(phase_hours[c].baseline_hours) = Num(req[c].total_hours)

\* baseline hours were computed for a non-default allocation that sums to 100
\* and splits a whole number of hours into fractions
C13_Witness ==
    \E c \in Callers :
        /\ Computed(phase_hours[c])
        /\ req[c].phase_allocation = Allocation(14, 14, 14, 14, 14, 15, 15)
        /\ req[c].total_hours = DEFAULT_TOTAL_HOURS
        /\ phase_hours[c].baseline_hours["Plan"][2] # 1

\* C19: calculate_risk_adjusted_hours returns, per phase, the modeled hours
\* times the phase's risk weight, the modeled hours themselves for a phase
\* with no entry in risk_weights, and leaves the modeled hours it was given
\* as they were.
C19_RiskAdjustedIsWeighted ==
    [][\A c \in Callers :
          (pc[c] = "risk" /\ pc'[c] = "summary") =>
              /\ phase_hours'[c] = phase_hours[c]
              /\ \A p \in Phases :
                    risk_adjusted_hours'[c][p] =
                        IF p \in DOMAIN req[c].risk_weights
                        THEN Mul(phase_hours[c].modeled_hours[p], req[c].risk_weights[p])
                        ELSE phase_hours[c].modeled_hours[p]]_vars

\* risk-adjusted hours were computed from weights that cover only some
\* phases: a weighted phase changed, an unweighted one with hours did not
C19_Witness ==
    \E c \in Callers :
        /\ Computed(risk_adjusted_hours[c])
        /\ req[c].risk_weights = PartialRiskWeights
        /\ \E p \in Phases \ DOMAIN PartialRiskWeights :
                /\ phase_hours[c].modeled_hours[p] # Zero
                /\ risk_adjusted_hours[c][p] = phase_hours[c].modeled_hours[p]
        /\ \E p \in DOMAIN PartialRiskWeights :
                risk_adjusted_hours[c][p] # phase_hours[c].modeled_hours[p]

\* the declared questions
Questions == DOMAIN AUTOMATION_ASSESSMENT

\* the declared questions among the keys of the responses
Recognised(responses) == {q \in Questions : q \in DOMAIN responses}

\* a response is the selectbox question's k-th option counted from 0
IsOption(q, response, k) ==
    /\ k + 1 \in 1..Len(AUTOMATION_ASSESSMENT[q].options)
    /\ AUTOMATION_ASSESSMENT[q].options[k + 1] = response

\* the answer is one the question declares: a slider value 0..100 or one of
\* the options
DeclaredAnswer(q, response) ==
    IF AUTOMATION_ASSESSMENT[q].type = "slider"
    THEN response \in 0..100
    ELSE \E k \in 0..4 : IsOption(q, response, k)

\* the 0..1 score of a declared answer: value / 100, or option index / 4
AnswerScore(q, response) ==
    IF AUTOMATION_ASSESSMENT[q].type = "slider"
    THEN Rat(response, 100)
    ELSE Rat(CHOOSE k \in 0..4 : IsOption(q, response, k), 4)

\* the sum of f over the declared questions in qs
SumOver(qs, f(_)) ==
    LET term(q) == IF q \in qs THEN f(q) ELSE Zero
    IN  Add(Add(Add(Add(term("test_automation_coverage"), term("ci_cd_maturity")),
                    term("code_reuse_level")),
                term("environment_automation")),
            term("documentation_automation"))

WeightOf(q) == AUTOMATION_ASSESSMENT[q].weight

\* the greatest whole number not above x, for 0 <= x <= 4
FloorTo4(x) == CHOOSE n \in 0..4 : Leq(Num(n), x) /\ (n = 4 \/ Less(x, Num(n + 1)))

\* C14: for responses to declared questions with declared answers (sliders in
\* 0..100, selectbox values among the options), assessment_score is the
\* weighted average of the answered questions' scores and lies in [0,1], and
\* maturity_level is floor(score * 4) + 1 clamped into 1..5; with no
\* recognised answer the score is 0 and the level 1.
C14_ScoreAndLevel ==
    assessment # None =>
        LET responses == assessment.responses
            result == assessment.result
            score == result.assessment_score
            weighted(q) == Mul(AnswerScore(q, responses[q]), WeightOf(q))
        IN  /\ (\A q \in DOMAIN responses :
                    q \in Questions /\ DeclaredAnswer(q, responses[q])) =>
                /\ Mul(score, SumOver(Recognised(responses), WeightOf)) =
                        SumOver(Recognised(responses), weighted)
                /\ Leq(Zero, score) /\ Leq(score, One)
                /\ \A raw \in {FloorTo4(Mul(score, Num(4))) + 1} :
                        result.maturity_level = IF raw > 5 THEN 5 ELSE raw
                /\ result.maturity_level \in 1..5
            /\ Recognised(responses) = {} =>
                    score = Zero /\ result.maturity_level = 1

\* all five questions were answered as declared, and the score put the
\* assessment on a level above 1
C14_Witness ==
    /\ assessment # None
    /\ Recognised(assessment.responses) = Questions
    /\ \A q \in Questions : DeclaredAnswer(q, assessment.responses[q])
    /\ assessment.result.maturity_level = 3
    /\ Less(Rat(1, 2), assessment.result.assessment_score)

\* typical savings + (test coverage - 30) * 0.1 + (CI/CD option index - 1) * 0.5,
\* the coverage counting as 30 when unanswered and the index as 1 when the
\* CI/CD question is unanswered or its answer is no declared option
AdjustedSavings(level, responses) ==
    LET coverage ==
            IF "test_automation_coverage" \in DOMAIN responses
            THEN responses["test_automation_coverage"] ELSE 30
        index ==
            IF /\ "ci_cd_maturity" \in DOMAIN responses
               /\ \E k \in 0..4 : IsOption("ci_cd_maturity", responses["ci_cd_maturity"], k)
            THEN CHOOSE k \in 0..4 :
                    IsOption("ci_cd_maturity", responses["ci_cd_maturity"], k)
            ELSE 1
    IN  Add(MATURITY_LEVELS[level].typical_savings,
            Add(Rat(coverage - 30, 10), Rat(index - 1, 2)))

\* C15: for any responses, current_savings_potential is the assessed level's
\* typical savings plus (test coverage - 30) * 0.1 plus (CI/CD option index
\* - 1) * 0.5, clamped into the level's [min, max] range, and so lies within
\* the savings_range returned with it.
C15_PotentialClampedToLevelRange ==
    assessment # None =>
        LET result == assessment.result
            range == MATURITY_LEVELS[result.maturity_level].savings_potential_range
            adjusted == AdjustedSavings(result.maturity_level, assessment.responses)
        IN  /\ result.savings_range = range
            /\ result.current_savings_potential =
                    IF Less(adjusted, range[1]) THEN range[1]
                    ELSE IF Less(range[2], adjusted) THEN range[2]
                    ELSE adjusted
            /\ Leq(result.savings_range[1], result.current_savings_potential)
            /\ Leq(result.current_savings_potential, result.savings_range[2])

\* an assessment whose adjusted savings overshoot the level's range was cut
\* to the range's upper end
C15_Witness ==
    /\ assessment # None
    /\ Less(assessment.result.savings_range[2],
            AdjustedSavings(assessment.result.maturity_level, assessment.responses))
    /\ assessment.result.current_savings_potential = assessment.result.savings_range[2]

\* C16: assess_current_maturity gives a result for every responses mapping: a
\* key that is no declared question adds nothing to the score or the weight
\* total, and a selectbox answer that is no declared option adds 0 to the
\* score while its weight still counts in the total.
C16_UnknownIgnoredUndeclaredZero ==
    assessment # None =>
        LET responses == assessment.responses
            result == assessment.result
            scored == {q \in Recognised(responses) : DeclaredAnswer(q, responses[q])}
            weighted(q) == Mul(AnswerScore(q, responses[q]), WeightOf(q))
        IN  /\ result.maturity_level \in 1..5
            /\ \A total \in {SumOver(Recognised(responses), WeightOf)} :
                    IF total = Zero THEN result.assessment_score = Zero
                    ELSE result.assessment_score = Div(SumOver(scored, weighted), total)

\* responses with a key that is no question and a CI/CD answer that is no
\* option were scored: 0.6*0.3 + 0 + 0.2*0.2 + 0.5*0.15 + 0.5*0.1 over 1.0
C16_Witness ==
    /\ assessment # None
    /\ "no_such_question" \in DOMAIN assessment.responses
    /\ "ci_cd_maturity" \in DOMAIN assessment.responses
    /\ ~DeclaredAnswer("ci_cd_maturity", assessment.responses["ci_cd_maturity"])
    /\ assessment.result.assessment_score = Rat(345, 1000)

\* C17: the Initiative Impact table has one row for exactly the initiatives
\* whose maturity is greater than 0, and every row's Total Financial Impact is
\* at most that of the row after it.
C17_ImpactRowsChosenAndAscending ==
    \A c \in Callers :
        Computed(initiative_impact_df[c]) =>
            LET rows == initiative_impact_df[c]
                maturity == req[c].maturity_levels
            IN  /\ {rows[k].Initiative : k \in 1..Len(rows)} =
                        {i \in Initiatives : i \in DOMAIN maturity /\ maturity[i] > 0}
                /\ \A j, k \in 1..Len(rows) :
                        rows[j].Initiative = rows[k].Initiative => j = k
                /\ \A k \in 1..(Len(rows) - 1) :
                        Leq(rows[k].TotalFinancialImpact, rows[k + 1].TotalFinancialImpact)

\* a table for maturities of which some are 0 or missing: four rows, the
\* first a strictly larger saver than the last
C17_Witness ==
    \E c \in Callers :
        /\ Computed(initiative_impact_df[c])
        /\ req[c].maturity_levels = MixedMaturity
        /\ Len(initiative_impact_df[c]) = 4
        /\ Less(initiative_impact_df[c][1].TotalFinancialImpact,
                initiative_impact_df[c][4].TotalFinancialImpact)
        /\ Less(initiative_impact_df[c][1].TotalFinancialImpact, Zero)

\* C18: an allocation whose percentages do not sum to 100 is caught before
\* the engine is invoked: in a rerun of the dashboard no engine calculation is
\* under way or done for a request whose allocation does not sum to 100.
C18_NoCalculationForBadAllocation ==
    \A c \in Callers :
        (req[c] # None /\ pc[c] # "idle") =>
            AllocationTotal(req[c].phase_allocation) = Num(100)

\* the benchmarks of the caller's request: its overrides, or the defaults
BenchmarksOf(c) ==
    IF req[c].industry_benchmarks = None THEN INDUSTRY_BENCHMARKS
    ELSE req[c].industry_benchmarks

\* seed * maturity_pct / 100, the seed itself for an initiative without a
\* maturity
SeedAtMaturity(c, i, p) ==
    IF i \in DOMAIN req[c].maturity_levels
    THEN Mul(SampleMatrix[i][p], Rat(req[c].maturity_levels[i], 100))
    ELSE SampleMatrix[i][p]

\* the factor the claim gives for a column, from the request's boosts
QualityFactor(c) ==
    Add(One, Mul(BenchmarksOf(c).quality_improvement, scaling[c].quality_boost))

TestingFactor(c) ==
    Add(One, Mul(BenchmarksOf(c).testing_phase_reduction, scaling[c].testing_boost))

ColumnFactor(c, p) ==
    CASE p = "Test" -> Mul(TestingFactor(c), QualityFactor(c))
      [] p \in {"Design", "Build"} -> QualityFactor(c)
      [] p = "Deploy" ->
            IF Less(Rat(1, 2), scaling[c].additional_factor) THEN QualityFactor(c)
            ELSE One
      [] OTHER -> One

\* the frame before capping: [initiative |-> [phase |-> cell]]
PreCapFrame(c) ==
    [i \in Initiatives |->
        [p \in Phases |-> Mul(SeedAtMaturity(c, i, p), ColumnFactor(c, p))]]

\* the request's target is above 20 and its level below 4
CapRuns(c) ==
    TargetOf(req[c].scenario_config) > 20 /\ LevelOf(req[c].scenario_config) < 4

\* the cap of a phase: its share of the reference baseline hours
PhaseCap(p) ==
    Mul(conservative_caps[p], Rat(17054 * DEFAULT_PHASE_ALLOCATION[p], 100))

\* C21: before capping, the maturity-scaled Test column is multiplied by
\* (1 + testing_phase_reduction * testing_boost) * (1 + quality_improvement *
\* quality_boost), Design and Build by (1 + quality_improvement *
\* quality_boost), Deploy by that factor exactly when additional_factor > 0.5,
\* every other column by 1, each once, with the caller's benchmarks when given
\* and the defaults otherwise: a frame returned without capping is that frame.
C21_ScenarioFactorsPerColumn ==
    \A c \in Callers :
        (Applied(c) /\ ~CapRuns(c)) =>
            \A i \in Initiatives, p \in Phases :
                effective_deltas[c][i][p] =
                    Mul(SeedAtMaturity(c, i, p), ColumnFactor(c, p))

\* a frame for overridden benchmarks at target 20, level 4 (additional factor
\* above 0.5): Deploy and Test were scaled, Plan was not
C21_Witness ==
    \E c \in Callers :
        /\ Applied(c) /\ ~CapRuns(c)
        /\ req[c].industry_benchmarks = HighBenchmarks
        /\ req[c].maturity_levels = AllAt(100)
        /\ Less(Rat(1, 2), scaling[c].additional_factor)
        /\ Less(effective_deltas[c]["EDCC"]["Deploy"], SampleMatrix["EDCC"]["Deploy"])
        /\ effective_deltas[c]["EDCC"]["Test"] =
                Mul(SampleMatrix["EDCC"]["Test"],
                    Mul(Add(One, Mul(Rat(8, 10), scaling[c].testing_boost)),
                        Add(One, Mul(Rat(5, 10), scaling[c].quality_boost))))
        /\ effective_deltas[c]["EDCC"]["Plan"] = SampleMatrix["EDCC"]["Plan"]

SumOverInitiatives(c, p) ==
    SumSeq([k \in 1..Len(INITIATIVE_FALLBACK) |->
                SeedAtMaturity(c, INITIATIVE_FALLBACK[k], p)])

\* C23: the Discover, Plan and Post Go-Live cells of the returned frame are
\* seed * maturity_pct / 100 (the seed itself at 100%) for every target, level
\* and benchmark set, whenever capping does not rescale their column.
C23_UnboostedColumnsAreMaturityScaled ==
    \A c \in Callers :
        Applied(c) =>
            \A p \in {"Discover", "Plan", "Post Go-Live"} :
                \A total \in {RatAbs(SumOverInitiatives(c, p))} :
                    ~(CapRuns(c) /\ Less(PhaseCap(p), total)) =>
                        \A i \in DOMAIN req[c].maturity_levels :
                            /\ effective_deltas[c][i][p] =
                                    Mul(SampleMatrix[i][p],
                                        Rat(req[c].maturity_levels[i], 100))
                            /\ req[c].maturity_levels[i] = 100 =>
                                    effective_deltas[c][i][p] = SampleMatrix[i][p]

\* a frame whose Test column was boosted under overridden benchmarks while
\* a half-mature initiative's Post Go-Live cell is half its seed value
C23_Witness ==
    \E c \in Callers :
        /\ Applied(c)
        /\ req[c].maturity_levels = MixedMaturity
        /\ req[c].industry_benchmarks = HighBenchmarks
        /\ TargetOf(req[c].scenario_config) = 30
        /\ effective_deltas[c]["Automated Testing"]["Post Go-Live"] =
                Mul(SampleMatrix["Automated Testing"]["Post Go-Live"], Rat(1, 2))
        /\ effective_deltas[c]["Automated Testing"]["Test"] #
                Mul(SampleMatrix["Automated Testing"]["Test"], Rat(1, 2))

\* the levels whose range's upper bound plus 1.5 per selected initiative
\* reaches the target
LevelsReaching(target, selected) ==
    {k \in 1..5 :
        Leq(Num(target),
            Add(MATURITY_LEVELS[k].savings_potential_range[2],
                Rat(3 * Len(selected), 2)))}

\* C24: when the target is infeasible, required_maturity_level is the lowest
\* level k in 1..5 with target <= upper bound of k's savings-potential range
\* + 1.5 * (number of selected initiatives), 5 if there is none; when it is
\* feasible, it is the current maturity level; required_maturity_name is the
\* name of that level.
C24_RequiredLevel ==
    feasibility # None =>
        LET result == feasibility.result
            reaching == LevelsReaching(feasibility.target_savings,
                                       feasibility.selected_initiatives)
            required == result.required_maturity_level
        IN  /\ ~result.feasible =>
                    IF reaching = {} THEN required = 5
                    ELSE required \in reaching /\ \A k \in reaching : required <= k
            /\ result.feasible => required = assessment.result.maturity_level
            /\ result.required_maturity_name = MATURITY_LEVELS[required].name

\* an infeasible target with two initiatives selected that takes level 4,
\* two levels above the current one
C24_Witness ==
    /\ feasibility # None
    /\ ~feasibility.result.feasible
    /\ Len(feasibility.selected_initiatives) = 2
    /\ feasibility.result.required_maturity_level = 4
    /\ feasibility.result.required_maturity_name = "Managed"
    /\ assessment.result.maturity_level = 2

IaCAdvice == "Implement Infrastructure as Code for environment management"

MonitoringAdvice == "Add comprehensive monitoring and measurement systems"

OptimizationAdvice == "Focus on continuous optimization and AI-assisted processes"

SufficientAdvice == "Your current maturity level is sufficient for this target"

\* C25 as stated: whenever the required maturity level is >= 4 the
\* recommendations include the infrastructure-as-code and the monitoring
\* recommendation, and whenever it is >= 5 the continuous-optimization
\* recommendation as well, regardless of the current maturity level.
C25_AdviceWheneverLevelRequired ==
    feasibility # None =>
        LET result == feasibility.result
        IN  /\ result.required_maturity_level >= 4 =>
                    /\ InList(IaCAdvice, result.recommendations)
                    /\ InList(MonitoringAdvice, result.recommendations)
            /\ result.required_maturity_level >= 5 =>
                    InList(OptimizationAdvice, result.recommendations)

\* C25 amended: whenever the required level is above the current level, the
\* recommendations include the infrastructure-as-code and the monitoring
\* recommendation if it is >= 4 and the continuous-optimization one if it is
\* >= 5, whatever the improvement areas; whenever it is not above the current
\* level, they are the single message that the current level is sufficient.
C25_AdviceWhenAboveCurrentLevel ==
    feasibility # None =>
        LET result == feasibility.result
            required == result.required_maturity_level
        IN  IF required > assessment.result.maturity_level
            THEN /\ required >= 4 =>
                        /\ InList(IaCAdvice, result.recommendations)
                        /\ InList(MonitoringAdvice, result.recommendations)
                 /\ required >= 5 => InList(OptimizationAdvice, result.recommendations)
                 /\ ~InList(SufficientAdvice, result.recommendations)
            ELSE result.recommendations = <<SufficientAdvice>>

\* level 4 is required from a lower current level: both pieces of advice are
\* given, the one for level 5 is not
C25_Witness ==
    /\ feasibility # None
    /\ feasibility.result.required_maturity_level = 4
    /\ assessment.result.maturity_level < 4
    /\ InList(IaCAdvice, feasibility.result.recommendations)
    /\ InList(MonitoringAdvice, feasibility.result.recommendations)
    /\ ~InList(OptimizationAdvice, feasibility.result.recommendations)

\* C28: the verdict and the advice of calculate_target_feasibility agree: the
\* recommendations are the single message that the current maturity level is
\* sufficient exactly when feasible is True, and when feasible is False the
\* required maturity level is strictly higher than the current level.
C28_VerdictAndAdviceAgree ==
    feasibility # None =>
        LET result == feasibility.result
        IN  /\ (result.recommendations = <<SufficientAdvice>>) <=> result.feasible
            /\ ~result.feasible =>
                    result.required_maturity_level > assessment.result.maturity_level

\* C26: in every row of the Initiative Impact table, Development Hours is the
\* sum of the initiative's effective deltas over Discover..Deploy and Post
\* Go-Live Hours its Post Go-Live delta; both times the blended rate are the
\* cost impacts; |development cost| * ongoing_factor * multiplier is taken off
\* the post-launch cost impact only when avoidance is enabled, a profile is
\* supplied and the development cost impact is negative; Total Financial
\* Impact is the development cost impact plus the post-launch cost impact
\* after avoidance.
C26_ImpactRowArithmetic ==
    \A c \in Callers :
        Computed(initiative_impact_df[c]) =>
            \A k \in 1..Len(initiative_impact_df[c]) :
                LET row == initiative_impact_df[c][k]
                    deltas == effective_deltas[c][row.Initiative]
                    rate == Num(req[c].blended_rate)
                    profile == req[c].cost_avoidance_config
                    dev == Add(Add(Add(deltas["Discover"], deltas["Plan"]),
                                   Add(deltas["Design"], deltas["Build"])),
                               Add(deltas["Test"], deltas["Deploy"]))
                    avoided ==
                        IF /\ req[c].include_cost_avoidance
                           /\ profile # None
                           /\ Less(Mul(dev, rate), Zero)
                        THEN Mul(RatAbs(Mul(dev, rate)),
                                 Mul(profile.ongoing_factor, profile.multiplier))
                        ELSE Zero
                IN  /\ row.DevelopmentHours = dev
                    /\ row.PostGoLiveHours = deltas["Post Go-Live"]
                    /\ row.DevelopmentCostImpact = Mul(dev, rate)
                    /\ row.PostGoLiveCostImpact =
                            Sub(Mul(deltas["Post Go-Live"], rate), avoided)
                    /\ row.TotalFinancialImpact =
                            Add(row.DevelopmentCostImpact, row.PostGoLiveCostImpact)

\* a table under the moderate profile: a row's post-launch cost impact is
\* below its hours times the rate, by 0.8 * 2.5 times the development saving
C26_Witness ==
    \E c \in Callers :
        /\ Computed(initiative_impact_df[c])
        /\ req[c].include_cost_avoidance
        /\ req[c].cost_avoidance_config = COST_AVOIDANCE_OPTIONS.moderate
        /\ \E k \in 1..Len(initiative_impact_df[c]) :
                LET row == initiative_impact_df[c][k]
                IN  /\ Less(row.DevelopmentCostImpact, Zero)
                    /\ row.PostGoLiveCostImpact =
                            Add(Mul(row.PostGoLiveHours, Num(req[c].blended_rate)),
                                Mul(row.DevelopmentCostImpact, Num(2)))

\* C27: for maturities in 0..100, targets in 5..30, levels in 1..5 and
\* benchmarks that are not negative, every cell of the Effective Delta Matrix
\* is <= 0; hence every phase's modeled hours are at most its baseline hours,
\* its savings are >= 0, and total_cost_savings is >= 0.
C27_NoNegativeSaving ==
    \A c \in Callers :
        (req[c] # None /\ ~req[c].own_deltas) =>
            /\ Computed(effective_deltas[c]) =>
                    \A i \in Initiatives, p \in Phases :
                        Leq(effective_deltas[c][i][p], Zero)
            /\ Computed(phase_hours[c]) =>
                    \A p \in Phases :
                        Leq(phase_hours[c].modeled_hours[p],
                            phase_hours[c].baseline_hours[p])
            /\ Computed(cost_results[c]) =>
                    \A p \in Phases : Leq(Zero, cost_results[c].savings[p])
            /\ Computed(kpi_summary[c]) =>
                    Leq(Zero, kpi_summary[c].total_cost_savings)

\* a run under overridden benchmarks at target 30 came to its KPIs with
\* cells below 0, modeled Test hours below the baseline and a positive saving
C27_Witness ==
    \E c \in Callers :
        /\ req[c] # None /\ ~req[c].own_deltas
        /\ req[c].industry_benchmarks = HighBenchmarks
        /\ TargetOf(req[c].scenario_config) = 30
        /\ Computed(kpi_summary[c])
        /\ Less(effective_deltas[c]["EDCC"]["Test"], Zero)
        /\ Less(phase_hours[c].modeled_hours["Test"], phase_hours[c].baseline_hours["Test"])
        /\ Less(Zero, kpi_summary[c].total_cost_savings)

\* C29: when no initiative has a maturity greater than 0,
\* generate_initiative_impact_table completes without error with an empty
\* row set, and the run still has its phase summary and KPI results.
C29_EmptyImpactTableWithoutError ==
    \A c \in Callers :
        (/\ req[c] # None
         /\ loaded[req[c].engine]
         /\ \A i \in Initiatives :
                i \in DOMAIN req[c].maturity_levels => req[c].maturity_levels[i] <= 0
         /\ pc[c] \in {"done", "failed"}) =>
            /\ pc[c] = "done"
            /\ error[c] = ""
            /\ initiative_impact_df[c] = <<>>
            /\ Computed(summary_df[c])
            /\ Computed(kpi_summary[c])

\* the Total Financial Impact of the first n rows, summed
RECURSIVE ImpactTotal(_, _)
ImpactTotal(rows, n) ==
    IF n = 0 THEN Zero
    ELSE Add(ImpactTotal(rows, n - 1), rows[n].TotalFinancialImpact)

\* C30: in a run in which every initiative has an entry in maturity_levels
\* and no phase's modeled hours are floored at zero (rate and avoidance
\* profile being those of the one request), the Total Financial Impact summed
\* over the rows of the Initiative Impact table is -(total_cost_savings +
\* total_cost_avoidance) of the KPI summary.
C30_ImpactRowsSumToBenefit ==
    \A c \in Callers :
        (/\ req[c] # None
         /\ pc[c] = "done"
         /\ DOMAIN req[c].maturity_levels = Initiatives
         /\ \A p \in Phases :
                Leq(Zero, Add(RequestBaseline(c, p), ColumnSum(effective_deltas[c], p)))) =>
            \A rows \in {initiative_impact_df[c]} :
                ImpactTotal(rows, Len(rows)) =
                    Sub(Zero, Add(kpi_summary[c].total_cost_savings,
                                  kpi_summary[c].total_cost_avoidance))

\* a finished run with seven rows, savings and avoidance, nothing floored
C30_Witness ==
    \E c \in Callers :
        /\ req[c] # None
        /\ pc[c] = "done"
        /\ DOMAIN req[c].maturity_levels = Initiatives
        /\ \A p \in Phases :
                Less(Zero, Add(RequestBaseline(c, p), ColumnSum(effective_deltas[c], p)))
        /\ Len(initiative_impact_df[c]) = 7
        /\ Less(Zero, kpi_summary[c].total_cost_savings)
        /\ Less(Zero, kpi_summary[c].total_cost_avoidance)

====
